---- MODULE Spec2Model ----
(***************************************************************************)
(* Cache manager of openapi-sync-mcp (src/src/services/cache.rs).          *)
(*                                                                         *)
(* State: the wall clock, the local spec files, the project directory's    *)
(* cache file and its .tmp sibling, and an observation of the most recent  *)
(* parse_with_cache call.  One action per operation; the environment       *)
(* (clock, file writes, edits of the cache file as the integration tests   *)
(* make them) has its own actions.                                         *)
(*                                                                         *)
(* save_cache is also modelled step by step (SpecSave: the directory and   *)
(* the inodes in `store`, the writers and a reader in `procs`), and the     *)
(* pure functions of the parser (src/src/services/parser.rs) are applied   *)
(* to bounded inputs (SpecParser: the call and its result in `call`).      *)
(***************************************************************************)
EXTENDS Integers, Sequences, FiniteSets, TLC

VARIABLES now, files, cacheFile, tmpFile, last, store, procs, call

vars == <<now, files, cacheFile, tmpFile, last, store, procs, call>>

\* the state of the step-by-step save_cache and of the parser's functions
others == <<store, procs, call>>
\* the state of the cache manager
cacheVars == <<now, files, cacheFile, tmpFile, last>>
\* a variable that a specification leaves alone
Unused == <<>>

(***************************************************************************)
(* Bounds of the model.                                                    *)
(***************************************************************************)
\* last clock value, in seconds
MaxTime == 1
\* clock ticks per second: timestamps carry sub-second precision
TicksPerSec == 2
\* width of the model's "64-bit" integers (u64 / i64), scaled down
IntBits == 18

(***************************************************************************)
(* Option and Result values.                                               *)
(***************************************************************************)
None == <<>>
Some(x) == <<x>>
IsSome(o) == Len(o) = 1
Unwrap(o) == o[1]

Ok(x) == [ok |-> TRUE, val |-> <<x>>, err |-> <<>>]
Err(e) == [ok |-> FALSE, val |-> <<>>, err |-> <<e>>]

(***************************************************************************)
(* Strings that the code inspects are sequences of characters.             *)
(***************************************************************************)
starts_with(s, p) == Len(s) >= Len(p) /\ SubSeq(s, 1, Len(p)) = p

HTTP == <<"h", "t", "t", "p">>
HTTP_SCHEME == <<"h", "t", "t", "p", ":", "/", "/">>
HTTPS_SCHEME == <<"h", "t", "t", "p", "s", ":", "/", "/">>

\* an ordinary local path, a local path whose name begins with "http", a URL
LocalPath == <<"a">>
HttpdPath == <<"h", "t", "t", "p", "d">>
RemoteUrl == <<"h", "t", "t", "p", ":", "/", "/", "x">>

Sources == {LocalPath, HttpdPath, RemoteUrl}
LocalPaths == {LocalPath, HttpdPath}

(***************************************************************************)
(* Time.  SystemTime and DateTime<Utc> are tick counts; an RFC3339 string  *)
(* is a tagged value, so formatting and parsing are not the identity.      *)
(***************************************************************************)
to_rfc3339(t) == [fmt |-> "rfc3339", ticks |-> <<t>>]
NotATimestamp == [fmt |-> "text", ticks |-> <<>>]
parse_from_rfc3339(s) == IF s.fmt = "rfc3339" THEN Ok(s.ticks[1]) ELSE Err("ParseError")

\* chrono::Duration::num_seconds: whole seconds, truncated toward zero
num_seconds(d) == IF d >= 0 THEN d \div TicksPerSec ELSE -((-d) \div TicksPerSec)

\* `x as i64` of a u64: two's-complement reinterpretation
AsI64(u) == IF u >= 2 ^ (IntBits - 1) THEN u - 2 ^ IntBits ELSE u

DEFAULT_TTL_SECONDS == 86400
CACHE_SCHEMA_VERSION == 1
\* a u64 TTL with the top bit set (2^63 in the program)
TtlHuge == 2 ^ (IntBits - 1)
TtlArgs == {None, Some(0), Some(TtlHuge)}

(***************************************************************************)
(* Documents and the normalizer, seen from the cache manager.              *)
(***************************************************************************)
Docs == {"d1", "d2"}
Contents == Docs \cup {"bad"}
\* parser.rs:213-218: the tags are collected through a HashSet, whose iteration
\* order is unspecified; d2 has two tags and so two possible orders
TagOrders(content) == IF content = "d2" THEN {1, 2} ELSE {1}

compute_hash(doc) == <<"sha", doc>>

parse_content(content, source, tags) ==
    IF content \in Docs
    THEN Ok([doc |-> content,
             tags |-> tags,
             spec_hash |-> compute_hash(content),
             source |-> source])
    ELSE Err("InvalidJson")

(***************************************************************************)
(* Files.  A spec file is absent or has a content and a modification time; *)
(* a file that is there can be read, or its permissions forbid reading it, *)
(* or its directory cannot be searched, or its bytes are not UTF-8.        *)
(* The cache file is absent, unreadable as a record, or holds the JSON of  *)
(* one OasCache record.                                                    *)
(***************************************************************************)
NoSpecFile == [exists |-> FALSE, content |-> "bad", mtime |-> 0, access |-> "ok"]
SpecFile(c, m) == [exists |-> TRUE, content |-> c, mtime |-> m, access |-> "ok"]
\* a file that is there and whose text the program cannot get at
DeniedFile(how) == [exists |-> TRUE, content |-> "d1", mtime |-> 0, access |-> how]

NoFile == [kind |-> "absent", data |-> <<>>]
Garbage == [kind |-> "garbage", data |-> <<>>]
Json(rec) == [kind |-> "json", data |-> <<rec>>]

\* std::fs::metadata(path) followed by Metadata::modified()
metadata_modified(path, fs) ==
    IF path \notin DOMAIN fs \/ ~fs[path].exists THEN Err("NotFound")
    ELSE IF fs[path].access = "unsearchable" THEN Err("PermissionDenied")
    ELSE Ok(fs[path].mtime)

\* std::fs::read_to_string(path), with the std::io::ErrorKind of a failure
read_to_string(path, fs) ==
    IF path \notin DOMAIN fs \/ ~fs[path].exists THEN Err("NotFound")
    ELSE IF fs[path].access \in {"unsearchable", "unreadable"} THEN Err("PermissionDenied")
    ELSE IF fs[path].access = "not_utf8" THEN Err("InvalidData")
    ELSE Ok(fs[path].content)

(***************************************************************************)
(* HTTP.  A header is absent or present; a present header is visible ASCII *)
(* text or opaque bytes, for which HeaderValue::to_str fails.              *)
(***************************************************************************)
TextHeader(v) == Some([text |-> TRUE, v |-> v])
OpaqueHeader == Some([text |-> FALSE, v |-> "bytes"])

to_str(h) == IF h.text THEN Ok(h.v) ELSE Err("ToStrError")

EtagHeaders == {None, TextHeader("e1"), TextHeader("e2"), OpaqueHeader}
LastModifiedHeaders == {None, TextHeader("m1"), TextHeader("m2"), OpaqueHeader}

NoRequest == [kind |-> "none", etag |-> None, lm |-> None, content |-> "bad"]
BuildFail == [kind |-> "buildfail", etag |-> None, lm |-> None, content |-> "bad"]
NetErr == [kind |-> "neterr", etag |-> None, lm |-> None, content |-> "bad"]
BadStatus == [kind |-> "status", etag |-> None, lm |-> None, content |-> "bad"]
Response(e, l, c) == [kind |-> "resp", etag |-> e, lm |-> l, content |-> c]

\* what a HEAD request to `url` can yield: a string that is no URL makes
\* send() fail without any traffic
HeadOutcomes(url) ==
    IF starts_with(url, HTTP_SCHEME) \/ starts_with(url, HTTPS_SCHEME)
    THEN {BuildFail, NetErr}
         \cup {Response(e, l, "bad") : e \in EtagHeaders, l \in LastModifiedHeaders}
    ELSE {BuildFail, NetErr}

\* what a GET request can yield
GetOutcomes ==
    {NetErr, BadStatus, Response(None, None, "bad"),
     Response(TextHeader("e1"), TextHeader("m1"), "d2"),
     Response(OpaqueHeader, TextHeader("m1"), "d1")}
    \cup {Response(e, l, "d1") : e \in {None, TextHeader("e1")},
                                 l \in {None, TextHeader("m1")}}

\* HttpHeaders built from a response: header.and_then(|v| v.to_str().ok())
header_string(h) == IF IsSome(h) /\ to_str(Unwrap(h)).ok THEN Some(Unwrap(h).v) ELSE None

(***************************************************************************)
(* CacheManager.                                                           *)
(***************************************************************************)
load_cache(file) ==
    IF file.kind = "absent" THEN Err("CacheNotFound")
    ELSE IF file.kind = "garbage" THEN Err("CacheCorrupted")
    ELSE Ok(Unwrap(file.data))

\* disk: "ok", or the step that fails
save_cache(cache, file, tmp, disk) ==
    IF disk = "write_fail"
    THEN [res |-> Err("CacheWriteFailed"), file |-> file, tmp |-> tmp]
    ELSE IF disk = "rename_fail"
    THEN [res |-> Err("CacheWriteFailed"), file |-> file, tmp |-> Json(cache)]
    ELSE [res |-> Ok("unit"), file |-> Json(cache), tmp |-> NoFile]

\* as create_cache, but the ttl override is not stored
create_cache_default_ttl(spec, source, ttl_seconds, http_headers, fs, t) ==
    LET modified == metadata_modified(source, fs)
    IN [version |-> "1.0.0",
        schema_version |-> CACHE_SCHEMA_VERSION,
        last_fetch |-> to_rfc3339(t),
        spec_hash |-> spec.spec_hash,
        source |-> source,
        ttl_seconds |-> DEFAULT_TTL_SECONDS,
        http_cache |-> [etag |-> IF IsSome(http_headers)
                                 THEN Unwrap(http_headers).etag ELSE None,
                        last_modified |-> IF IsSome(http_headers)
                                          THEN Unwrap(http_headers).last_modified
                                          ELSE None],
        local_cache |-> IF ~starts_with(source, HTTP) /\ modified.ok
                        THEN [mtime |-> Some(to_rfc3339(Unwrap(modified.val)))]
                        ELSE [mtime |-> None],
        meta |-> [title |-> spec.doc],
        parsed_spec |-> Some(spec)]

create_cache(spec, source, ttl_seconds, http_headers, fs, t) ==
    LET modified == metadata_modified(source, fs)
        local_cache ==
            IF ~starts_with(source, HTTP)
            THEN IF modified.ok
                 THEN [mtime |-> Some(to_rfc3339(Unwrap(modified.val)))]
                 ELSE [mtime |-> None]
            ELSE [mtime |-> None]
    IN [version |-> "1.0.0",
        schema_version |-> CACHE_SCHEMA_VERSION,
        last_fetch |-> to_rfc3339(t),
        spec_hash |-> spec.spec_hash,
        source |-> source,
        ttl_seconds |-> IF IsSome(ttl_seconds) THEN Unwrap(ttl_seconds)
                        ELSE DEFAULT_TTL_SECONDS,
        http_cache |-> [etag |-> IF IsSome(http_headers)
                                 THEN Unwrap(http_headers).etag ELSE None,
                        last_modified |-> IF IsSome(http_headers)
                                          THEN Unwrap(http_headers).last_modified
                                          ELSE None],
        local_cache |-> local_cache,
        meta |-> [title |-> spec.doc],
        parsed_spec |-> Some(spec)]

is_cache_expired(cache, t) ==
    LET last_fetch == parse_from_rfc3339(cache.last_fetch)
    IN IF ~last_fetch.ok THEN TRUE
       ELSE num_seconds(t - Unwrap(last_fetch.val)) > AsI64(cache.ttl_seconds)

\* as check_remote_cache, but Last-Modified is compared before the ETag
check_remote_cache_lm_first(url, cache, t, head) ==
    IF is_cache_expired(cache, t) THEN [valid |-> FALSE, head_sent |-> FALSE, stat |-> FALSE]
    ELSE IF head.kind = "buildfail" THEN [valid |-> FALSE, head_sent |-> FALSE, stat |-> FALSE]
    ELSE IF head.kind = "neterr" THEN [valid |-> TRUE, head_sent |-> TRUE, stat |-> FALSE]
    ELSE IF IsSome(head.lm) /\ to_str(Unwrap(head.lm)).ok
            /\ IsSome(cache.http_cache.last_modified)
    THEN [valid |-> Unwrap(to_str(Unwrap(head.lm)).val) = Unwrap(cache.http_cache.last_modified),
          head_sent |-> TRUE, stat |-> FALSE]
    ELSE IF IsSome(head.etag) /\ to_str(Unwrap(head.etag)).ok /\ IsSome(cache.http_cache.etag)
    THEN [valid |-> Unwrap(to_str(Unwrap(head.etag)).val) = Unwrap(cache.http_cache.etag),
          head_sent |-> TRUE, stat |-> FALSE]
    ELSE [valid |-> TRUE, head_sent |-> TRUE, stat |-> FALSE]

\* as check_remote_cache, but the request is sent before the TTL is looked at
check_remote_cache_head_first(url, cache, t, head) ==
    IF head.kind = "buildfail" THEN [valid |-> FALSE, head_sent |-> FALSE, stat |-> FALSE]
    ELSE IF head.kind = "neterr" THEN [valid |-> TRUE, head_sent |-> TRUE, stat |-> FALSE]
    ELSE IF is_cache_expired(cache, t) THEN [valid |-> FALSE, head_sent |-> TRUE, stat |-> FALSE]
    ELSE IF IsSome(head.etag) /\ to_str(Unwrap(head.etag)).ok /\ IsSome(cache.http_cache.etag)
    THEN [valid |-> Unwrap(to_str(Unwrap(head.etag)).val) = Unwrap(cache.http_cache.etag),
          head_sent |-> TRUE, stat |-> FALSE]
    ELSE IF IsSome(head.lm) /\ to_str(Unwrap(head.lm)).ok
            /\ IsSome(cache.http_cache.last_modified)
    THEN [valid |-> Unwrap(to_str(Unwrap(head.lm)).val) = Unwrap(cache.http_cache.last_modified),
          head_sent |-> TRUE, stat |-> FALSE]
    ELSE [valid |-> TRUE, head_sent |-> TRUE, stat |-> FALSE]

\* returns the verdict and whether the HEAD request was sent
check_remote_cache(url, cache, t, head) ==
    IF is_cache_expired(cache, t) THEN [valid |-> FALSE, head_sent |-> FALSE, stat |-> FALSE]
    ELSE IF head.kind = "buildfail" THEN [valid |-> FALSE, head_sent |-> FALSE, stat |-> FALSE]
    ELSE IF head.kind = "neterr" THEN [valid |-> TRUE, head_sent |-> TRUE, stat |-> FALSE]
    ELSE IF IsSome(head.etag) /\ to_str(Unwrap(head.etag)).ok /\ IsSome(cache.http_cache.etag)
    THEN [valid |-> Unwrap(to_str(Unwrap(head.etag)).val) = Unwrap(cache.http_cache.etag),
          head_sent |-> TRUE, stat |-> FALSE]
    ELSE IF IsSome(head.lm) /\ to_str(Unwrap(head.lm)).ok
            /\ IsSome(cache.http_cache.last_modified)
    THEN [valid |-> Unwrap(to_str(Unwrap(head.lm)).val) = Unwrap(cache.http_cache.last_modified),
          head_sent |-> TRUE, stat |-> FALSE]
    ELSE [valid |-> TRUE, head_sent |-> TRUE, stat |-> FALSE]

\* as check_local_cache, but without the TTL test
check_local_cache_mtime_only(path, cache, fs, t) ==
    LET modified == metadata_modified(path, fs)
    IN IF ~modified.ok THEN [valid |-> FALSE, head_sent |-> FALSE, stat |-> TRUE]
       ELSE IF IsSome(cache.local_cache.mtime)
       THEN [valid |-> to_rfc3339(Unwrap(modified.val)) = Unwrap(cache.local_cache.mtime),
             head_sent |-> FALSE, stat |-> TRUE]
       ELSE [valid |-> FALSE, head_sent |-> FALSE, stat |-> TRUE]

\* returns the verdict and whether the file was stat'ed
check_local_cache(path, cache, fs, t) ==
    IF is_cache_expired(cache, t) THEN [valid |-> FALSE, head_sent |-> FALSE, stat |-> FALSE]
    ELSE LET modified == metadata_modified(path, fs)
         IN IF ~modified.ok THEN [valid |-> FALSE, head_sent |-> FALSE, stat |-> TRUE]
            ELSE IF IsSome(cache.local_cache.mtime)
            THEN [valid |-> to_rfc3339(Unwrap(modified.val)) = Unwrap(cache.local_cache.mtime),
                  head_sent |-> FALSE, stat |-> TRUE]
            ELSE [valid |-> FALSE, head_sent |-> FALSE, stat |-> TRUE]

\* returns Ok(<<spec, headers>>) or the error, and the I/O that was done
fetch_and_parse(source, fs, get, tags) ==
    IF starts_with(source, HTTP_SCHEME) \/ starts_with(source, HTTPS_SCHEME)
    THEN IF get.kind \in {"buildfail", "neterr"}
         THEN [res |-> Err("ConnectionFailed"), io |-> "get", normalized |-> FALSE]
         ELSE IF get.kind = "status"
         THEN [res |-> Err("HttpError"), io |-> "get", normalized |-> FALSE]
         ELSE LET headers == [etag |-> header_string(get.etag),
                              last_modified |-> header_string(get.lm)]
                  spec == parse_content(get.content, source, tags)
              IN [res |-> IF spec.ok THEN Ok(<<Unwrap(spec.val), headers>>)
                          ELSE Err(Unwrap(spec.err)),
                  io |-> "get", normalized |-> TRUE]
    ELSE LET content == read_to_string(source, fs)
         IN IF ~content.ok
            THEN [res |-> Err("ReadError"), io |-> "read", normalized |-> FALSE]
            ELSE LET spec == parse_content(Unwrap(content.val), source, tags)
                 IN [res |-> IF spec.ok
                             THEN Ok(<<Unwrap(spec.val), [etag |-> None, last_modified |-> None]>>)
                             ELSE Err(Unwrap(spec.err)),
                     io |-> "read", normalized |-> TRUE]

\* as schema_version_compatible, but any version is accepted
schema_version_any(cache) == TRUE

\* cache.rs:169, the schema version stage of the cascade
schema_version_compatible(cache) == cache.schema_version = CACHE_SCHEMA_VERSION

\* as source_matches, but any record is accepted
source_matches_any(cache, source) == TRUE

\* cache.rs:171, the source stage of the cascade
source_matches(cache, source) == cache.source = source

\* cache.rs:173-177, the freshness stage of the cascade
cache_is_valid(source, cache, fs, t, head) ==
    IF starts_with(source, HTTP)
    THEN check_remote_cache(source, cache, t, head)
    ELSE check_local_cache(source, cache, fs, t)

\* as usable_parsed_spec, but without the comparison of the hashes
usable_parsed_spec_unverified(cache) == cache.parsed_spec

\* cache.rs:181-187, the embedded model, if present and intact
usable_parsed_spec(cache) ==
    IF IsSome(cache.parsed_spec)
       /\ Unwrap(cache.parsed_spec).spec_hash = cache.spec_hash
    THEN cache.parsed_spec
    ELSE None

\* as after_save, but with `self.save_cache(&cache)?`
after_save_propagating(spec, saved) ==
    IF saved.res.ok THEN Ok(spec) ELSE Err("CacheWriteFailed")

\* cache.rs:198, `let _ = self.save_cache(&cache)`: the outcome is dropped
after_save(spec, saved) == Ok(spec)

NotChecked == [valid |-> FALSE, head_sent |-> FALSE, stat |-> FALSE]

\* cache.rs:167-191, the attempt to answer from the cache.  `found` is the
\* embedded model to return, if any; the rest reports what the attempt did.
try_cache(source, file, fs, t, head) ==
    LET loaded == load_cache(file)
        cache == Unwrap(loaded.val)
        reached_check == /\ loaded.ok
                         /\ schema_version_compatible(cache)
                         /\ source_matches(cache, source)
        check == IF reached_check
                 THEN cache_is_valid(source, cache, fs, t, head)
                 ELSE NotChecked
    IN [found |-> IF reached_check /\ check.valid THEN usable_parsed_spec(cache) ELSE None,
        checked |-> reached_check, valid |-> check.valid,
        head_sent |-> check.head_sent, stat |-> check.stat]

\* as fetch_fresh, but a failed fetch discards the record on disk
fetch_fresh_discarding(source, ttl_seconds, file, tmp, fs, t, get, tags, disk) ==
    LET fetched == fetch_and_parse(source, fs, get, tags)
    IN IF ~fetched.res.ok
       THEN [result |-> Err(Unwrap(fetched.res.err)), file |-> NoFile, tmp |-> tmp,
             io |-> fetched.io, normalized |-> fetched.normalized, save |-> "none"]
       ELSE LET spec == Unwrap(fetched.res.val)[1]
                headers == Unwrap(fetched.res.val)[2]
                new == create_cache(spec, source, ttl_seconds, Some(headers), fs, t)
                saved == save_cache(new, file, tmp, disk)
            IN [result |-> after_save(spec, saved),
                file |-> saved.file, tmp |-> saved.tmp,
                io |-> fetched.io, normalized |-> fetched.normalized,
                save |-> IF saved.res.ok THEN "ok" ELSE "fail"]

\* cache.rs:193-200, the cold path: fetch, normalize, build the record, save it
fetch_fresh(source, ttl_seconds, file, tmp, fs, t, get, tags, disk) ==
    LET fetched == fetch_and_parse(source, fs, get, tags)
    IN IF ~fetched.res.ok
       THEN [result |-> Err(Unwrap(fetched.res.err)), file |-> file, tmp |-> tmp,
             io |-> fetched.io, normalized |-> fetched.normalized, save |-> "none"]
       ELSE LET spec == Unwrap(fetched.res.val)[1]
                headers == Unwrap(fetched.res.val)[2]
                new == create_cache(spec, source, ttl_seconds, Some(headers), fs, t)
                saved == save_cache(new, file, tmp, disk)
            IN [result |-> after_save(spec, saved),
                file |-> saved.file, tmp |-> saved.tmp,
                io |-> fetched.io, normalized |-> fetched.normalized,
                save |-> IF saved.res.ok THEN "ok" ELSE "fail"]

\* as parse_with_cache, but a hit refreshes the record's last_fetch
parse_with_cache_touching(source, ttl_seconds, tried, file, tmp, fs, t, get, tags, disk) ==
    IF IsSome(tried.found)
    THEN [result |-> Ok(Unwrap(tried.found)),
          file |-> Json([Unwrap(file.data) EXCEPT !.last_fetch = to_rfc3339(t)]),
          tmp |-> tmp,
          path |-> "hit", io |-> "none", normalized |-> FALSE, save |-> "none"]
    ELSE LET fresh == fetch_fresh(source, ttl_seconds, file, tmp, fs, t, get, tags, disk)
         IN [result |-> fresh.result, file |-> fresh.file, tmp |-> fresh.tmp,
             path |-> "cold", io |-> fresh.io, normalized |-> fresh.normalized,
             save |-> fresh.save]

\* cache.rs:161-201.  tried: what the attempt to answer from the cache gave
\* (the `if let Ok(cache) = self.load_cache()` block); get, tags, disk: the
\* outcome of the GET request, the tag order the normalizer produces and the
\* outcome of the disk write.  Returns the call's result, the files it leaves
\* and what it did.
parse_with_cache(source, ttl_seconds, tried, file, tmp, fs, t, get, tags, disk) ==
    IF IsSome(tried.found)
    THEN [result |-> Ok(Unwrap(tried.found)), file |-> file, tmp |-> tmp,
          path |-> "hit", io |-> "none", normalized |-> FALSE, save |-> "none"]
    ELSE LET fresh == fetch_fresh(source, ttl_seconds, file, tmp, fs, t, get, tags, disk)
         IN [result |-> fresh.result, file |-> fresh.file, tmp |-> fresh.tmp,
             path |-> "cold", io |-> fresh.io, normalized |-> fresh.normalized,
             save |-> fresh.save]

(***************************************************************************)
(* The state machine.                                                      *)
(***************************************************************************)
\* the rename step failing leaves the cache file as a failed write does; the
\* callers do not distinguish the steps of save_cache
DiskOutcomes == {"ok", "write_fail"}

\* the paths that other programs rewrite
WritablePaths == {LocalPath}

\* `last` observes a call until its caller has taken the answer.  The model
\* returned for a local file is then remembered (prev_source, prev_result)
\* until another program rewrites a spec file or the cache file.
Remember(src, res) ==
    [op |-> "none", source |-> <<>>, ttl |-> None,
     pre |-> NoFile, head |-> NoRequest, get |-> NoRequest,
     result |-> Err("none"), path |-> "none", checked |-> FALSE,
     valid |-> FALSE, head_sent |-> FALSE, stat |-> FALSE, io |-> "none",
     normalized |-> FALSE, save |-> "none",
     prev_source |-> src, prev_result |-> res]

NoCall == Remember(<<>>, Err("none"))

Init ==
    /\ now = 0
    /\ files = [p \in LocalPaths |-> SpecFile("d1", 0)]
    /\ cacheFile = NoFile
    /\ tmpFile = NoFile
    /\ last = NoCall
    /\ store = Unused /\ procs = Unused /\ call = Unused

\* The environments a call can meet.  An outcome is drawn only for a request
\* the call makes: the HEAD request only if the freshness check reaches it,
\* the GET request only on the cold path of a URL, and so on.
HeadInputs(url, cache) ==
    IF check_remote_cache(url, cache, now, NetErr).head_sent
    THEN HeadOutcomes(url)
    ELSE {NoRequest}

\* the attempts to answer from the cache, over the outcomes of the HEAD request
Attempts(source) ==
    IF load_cache(cacheFile).ok
    THEN {try_cache(source, cacheFile, files, now, head) :
             head \in HeadInputs(source, Unwrap(load_cache(cacheFile).val))}
    ELSE {try_cache(source, cacheFile, files, now, NoRequest)}

GetInputs(source, tried) ==
    IF ~IsSome(tried.found) /\ fetch_and_parse(source, files, NetErr, 1).io = "get"
    THEN GetOutcomes
    ELSE {NoRequest}

TagInputs(source, tried, get) ==
    IF IsSome(tried.found) THEN {1}
    ELSE IF get.kind = "resp" THEN TagOrders(get.content)
    ELSE IF get.kind = "none" /\ read_to_string(source, files).ok
    THEN TagOrders(Unwrap(read_to_string(source, files).val))
    ELSE {1}

DiskInputs(source, tried, get) ==
    IF ~IsSome(tried.found) /\ fetch_and_parse(source, files, get, 1).res.ok
    THEN DiskOutcomes
    ELSE {"ok"}

\* tools/parse.rs:101-106, parse_spec calls parse_with_cache(source, ttl_seconds)
ParseWithCache(source, ttl_seconds) ==
    /\ last.op = "none"
    /\ \E tried \in Attempts(source) :
       \E get \in GetInputs(source, tried) :
       \E tags \in TagInputs(source, tried, get), disk \in DiskInputs(source, tried, get) :
       \E r \in {parse_with_cache(source, ttl_seconds, tried, cacheFile, tmpFile,
                                  files, now, get, tags, disk)} :
           /\ cacheFile' = r.file
           /\ tmpFile' = r.tmp
           /\ last' = [op |-> "parse", source |-> source, ttl |-> ttl_seconds,
                       pre |-> cacheFile, head |-> NoRequest, get |-> get,
                       result |-> r.result, path |-> r.path,
                       checked |-> tried.checked, valid |-> tried.valid,
                       head_sent |-> tried.head_sent, stat |-> tried.stat,
                       io |-> r.io, normalized |-> r.normalized, save |-> r.save,
                       prev_source |-> IF last.prev_source = source
                                       THEN last.prev_source ELSE <<>>,
                       prev_result |-> IF last.prev_source = source
                                       THEN last.prev_result ELSE Err("none")]
           /\ UNCHANGED <<now, files>>
    /\ UNCHANGED others

\* CacheManager::check_remote_cache(url, &cache), called on the loaded record
CheckRemoteCache(url) ==
    /\ last.op = "none"
    /\ load_cache(cacheFile).ok
    /\ \E cache \in {Unwrap(load_cache(cacheFile).val)} :
       \E head \in HeadInputs(url, cache) :
       \E r \in {check_remote_cache(url, cache, now, head)} :
           last' = [NoCall EXCEPT !.op = "check_remote", !.source = url,
                                  !.pre = cacheFile, !.head = head,
                                  !.checked = TRUE, !.valid = r.valid,
                                  !.head_sent = r.head_sent, !.stat = r.stat]
    /\ UNCHANGED <<now, files, cacheFile, tmpFile>>
    /\ UNCHANGED others

\* CacheManager::check_local_cache(path, &cache), called on the loaded record
CheckLocalCache(path) ==
    /\ last.op = "none"
    /\ load_cache(cacheFile).ok
    /\ \E r \in {check_local_cache(path, Unwrap(load_cache(cacheFile).val), files, now)} :
           last' = [NoCall EXCEPT !.op = "check_local", !.source = path,
                                  !.pre = cacheFile,
                                  !.checked = TRUE, !.valid = r.valid,
                                  !.head_sent = r.head_sent, !.stat = r.stat]
    /\ UNCHANGED <<now, files, cacheFile, tmpFile>>
    /\ UNCHANGED others

\* the caller takes the answer (tools/parse.rs:107-140 for parse_spec)
Respond ==
    /\ last.op # "none"
    /\ last' = IF last.op = "parse" /\ last.source \in LocalPaths /\ last.result.ok
               THEN Remember(last.source, last.result)
               ELSE NoCall
    /\ UNCHANGED <<now, files, cacheFile, tmpFile>>
    /\ UNCHANGED others

\* the clock advances
Tick ==
    /\ last.op = "none"
    /\ now < MaxTime * TicksPerSec
    /\ now' = now + 1
    /\ UNCHANGED <<files, cacheFile, tmpFile, last>>
    /\ UNCHANGED others

\* another program rewrites a spec file
WriteSpecFile(p, c) ==
    /\ last.op = "none"
    /\ files' = [files EXCEPT ![p] = SpecFile(c, now)]
    /\ UNCHANGED <<now, cacheFile, tmpFile>>
    /\ last' = NoCall
    /\ UNCHANGED others

\* another program removes a spec file
RemoveSpecFile(p) ==
    /\ last.op = "none"
    /\ files[p].exists
    /\ files' = [files EXCEPT ![p] = NoSpecFile]
    /\ UNCHANGED <<now, cacheFile, tmpFile>>
    /\ last' = NoCall
    /\ UNCHANGED others

\* the record as the cold path writes it: nothing edited yet
Unedited(file) ==
    /\ file.kind = "json"
    /\ Unwrap(file.data).schema_version = CACHE_SCHEMA_VERSION
    /\ IsSome(Unwrap(file.data).parsed_spec)
    /\ Unwrap(file.data).spec_hash = Unwrap(Unwrap(file.data).parsed_spec).spec_hash

\* cache_integration_test.rs:375-382, the record's schema_version is overwritten
EditSchemaVersion ==
    /\ last.op = "none"
    /\ Unedited(cacheFile)
    /\ cacheFile' = Json([Unwrap(cacheFile.data) EXCEPT !.schema_version = 999])
    /\ UNCHANGED <<now, files, tmpFile>>
    /\ last' = NoCall
    /\ UNCHANGED others

\* cache_integration_test.rs:430-438, the record's spec_hash is overwritten
EditSpecHash ==
    /\ last.op = "none"
    /\ Unedited(cacheFile)
    /\ cacheFile' = Json([Unwrap(cacheFile.data) EXCEPT !.spec_hash = <<"corrupted_hash">>])
    /\ UNCHANGED <<now, files, tmpFile>>
    /\ last' = NoCall
    /\ UNCHANGED others

\* a record without the optional parsed_spec
EditDropParsedSpec ==
    /\ last.op = "none"
    /\ Unedited(cacheFile)
    /\ cacheFile' = Json([Unwrap(cacheFile.data) EXCEPT !.parsed_spec = None])
    /\ UNCHANGED <<now, files, tmpFile>>
    /\ last' = NoCall
    /\ UNCHANGED others

\* the cache file is overwritten with text that is not a record
GarbleCacheFile ==
    /\ last.op = "none"
    /\ cacheFile.kind = "json"
    /\ cacheFile' = Garbage
    /\ UNCHANGED <<now, files, tmpFile>>
    /\ last' = NoCall
    /\ UNCHANGED others

\* cache_integration_test.rs:27-32, cleanup_cache
RemoveCacheFile ==
    /\ last.op = "none"
    /\ cacheFile.kind # "absent"
    /\ cacheFile' = NoFile
    /\ UNCHANGED <<now, files, tmpFile>>
    /\ last' = NoCall
    /\ UNCHANGED others

Next ==
    \/ \E source \in Sources, ttl_seconds \in TtlArgs : ParseWithCache(source, ttl_seconds)
    \/ \E url \in Sources : CheckRemoteCache(url)
    \/ \E path \in LocalPaths : CheckLocalCache(path)
    \/ Respond
    \/ Tick
    \/ \E p \in WritablePaths, c \in Contents : WriteSpecFile(p, c)
    \/ \E p \in WritablePaths : RemoveSpecFile(p)
    \/ EditSchemaVersion
    \/ EditSpecHash
    \/ EditDropParsedSpec
    \/ GarbleCacheFile
    \/ RemoveCacheFile

Spec == Init /\ [][Next]_vars

(***************************************************************************)
(* Vocabulary of the properties, stated on the observation of the last     *)
(* call and on the files, without the operators of the cache manager.      *)
(***************************************************************************)
Parsed == last.op = "parse"
PreReadable == last.pre.kind = "json"
PreRec == Unwrap(last.pre.data)
PreEmbedded == Unwrap(PreRec.parsed_spec)
PostRec == Unwrap(cacheFile.data)
Returned == Unwrap(last.result.val)

\* the record's age in ticks and in whole seconds
AgeTicks(rec, t) == t - Unwrap(rec.last_fetch.ticks)
AgeSeconds(rec, t) == AgeTicks(rec, t) \div TicksPerSec
\* the record's TTL has elapsed: more whole seconds than ttl_seconds have passed
TtlElapsed(rec, t) == AgeSeconds(rec, t) > rec.ttl_seconds

\* the content the source has when the call is made
CurrentContent ==
    IF last.source \in LocalPaths THEN files[last.source].content ELSE last.get.content
\* the cold fetch-and-normalize step cannot succeed
FetchFails ==
    \/ last.source \in LocalPaths /\ ~files[last.source].exists
    \/ last.source \notin LocalPaths /\ last.get.kind # "resp"
    \/ CurrentContent \notin Docs

(***************************************************************************)
(* C1. When parse_with_cache finds a readable record with the current      *)
(* schema_version and the requested source, which passes the freshness     *)
(* check and whose embedded parsed_spec has the record's spec_hash, it     *)
(* returns exactly the embedded parsed_spec, fetches nothing (no GET, no   *)
(* file read), normalizes nothing and leaves the cache file as it was; so  *)
(* the second of two successive resolutions of an unchanged local file     *)
(* returns the model the first one returned.                               *)
(***************************************************************************)
C1Case ==
    /\ Parsed
    /\ PreReadable
    /\ PreRec.schema_version = CACHE_SCHEMA_VERSION
    /\ PreRec.source = last.source
    /\ last.checked /\ last.valid
    /\ IsSome(PreRec.parsed_spec)
    /\ PreEmbedded.spec_hash = PreRec.spec_hash

C1_ZeroParseHit ==
    C1Case =>
        /\ last.result = Ok(PreEmbedded)
        /\ last.io = "none" /\ ~last.normalized /\ last.save = "none"
        /\ cacheFile = last.pre
        /\ (last.source \in LocalPaths /\ last.prev_source = last.source
               => last.result = last.prev_result)

\* a second resolution of an unchanged local file with two tags, answered
\* from the record
C1_Witness ==
    /\ C1Case
    /\ last.source = LocalPath /\ last.prev_source = LocalPath
    /\ last.result.ok /\ Returned.doc = "d2" /\ Returned.tags = 2

(***************************************************************************)
(* C2. A record whose schema_version differs from CACHE_SCHEMA_VERSION is   *)
(* never used: the call takes the cold path without running the freshness  *)
(* check, and after a successful cold path the persisted record carries    *)
(* the current schema_version.                                             *)
(***************************************************************************)
C2Case == Parsed /\ PreReadable /\ PreRec.schema_version # CACHE_SCHEMA_VERSION

C2_ColdWithoutCheck ==
    /\ last.path = "cold" /\ last.io # "none"
    /\ ~last.checked /\ ~last.stat /\ ~last.head_sent

C2_PersistedIsCurrent ==
    cacheFile.kind = "json" /\ PostRec.schema_version = CACHE_SCHEMA_VERSION

\* as claimed: the call returning a model is enough
C2_AsClaimed ==
    C2Case => C2_ColdWithoutCheck /\ (last.result.ok => C2_PersistedIsCurrent)

\* as amended: the cold path must also have saved its record
C2_SchemaVersionGate ==
    C2Case => C2_ColdWithoutCheck /\ (last.save = "ok" => C2_PersistedIsCurrent)

\* the record was otherwise good: requested source, TTL not elapsed, hashes equal
C2_Witness ==
    /\ C2Case
    /\ PreRec.source = last.source
    /\ ~TtlElapsed(PreRec, now)
    /\ IsSome(PreRec.parsed_spec) /\ PreEmbedded.spec_hash = PreRec.spec_hash
    /\ last.save = "ok"

(***************************************************************************)
(* C3. If the record's spec_hash differs from the spec_hash inside its     *)
(* embedded parsed_spec, the embedded model is ignored and the cold path   *)
(* taken, even when every earlier stage passed; once that cold path has    *)
(* succeeded and persisted, the record's spec_hash is the spec_hash of the *)
(* freshly normalized model that was returned.                             *)
(***************************************************************************)
C3Case ==
    /\ Parsed /\ PreReadable
    /\ IsSome(PreRec.parsed_spec)
    /\ PreEmbedded.spec_hash # PreRec.spec_hash

C3_HashIntegrity ==
    C3Case =>
        /\ last.path = "cold" /\ last.io # "none"
        /\ (last.save = "ok" =>
               /\ last.result.ok /\ last.normalized
               /\ cacheFile.kind = "json"
               /\ PostRec.spec_hash = Returned.spec_hash
               /\ PostRec.parsed_spec = Some(Returned))

C3_Witness ==
    /\ C3Case
    /\ PreRec.schema_version = CACHE_SCHEMA_VERSION
    /\ PreRec.source = last.source
    /\ last.checked /\ last.valid
    /\ last.save = "ok"

(***************************************************************************)
(* C4. A model returned from the cache comes from a record whose source is *)
(* exactly the requested source; a record fetched for another source is    *)
(* never reused.                                                           *)
(***************************************************************************)
C4_NoCrossSourceReuse ==
    /\ (Parsed /\ last.path = "hit" => PreReadable /\ PreRec.source = last.source)
    /\ (Parsed /\ PreReadable /\ PreRec.source # last.source
           => last.path = "cold" /\ last.io # "none")
    /\ (Parsed /\ last.result.ok => Returned.source = last.source)

\* an unedited record of another source, within its TTL, is passed over
C4_Witness ==
    /\ Parsed /\ PreReadable
    /\ PreRec.source # last.source
    /\ Unedited(last.pre)
    /\ ~TtlElapsed(PreRec, now)
    /\ last.result.ok

(***************************************************************************)
(* C5. parse_with_cache returns an error if and only if the cold           *)
(* fetch-and-normalize step fails: neither an absent or unreadable cache   *)
(* file, nor a failed cascade stage, nor a failed save surfaces, and when  *)
(* the save fails the call still returns the freshly normalized model.     *)
(***************************************************************************)
C5_ErrorsOnlyFromColdFetch ==
    Parsed =>
        /\ (~last.result.ok <=> last.io # "none" /\ FetchFails)
        /\ (last.save = "fail" =>
               /\ last.result.ok /\ last.normalized
               /\ Returned.doc = CurrentContent
               /\ cacheFile = last.pre)

\* the cache file was unreadable and the save failed: the model is returned
C5_Witness ==
    /\ Parsed
    /\ last.pre.kind = "garbage"
    /\ last.save = "fail"
    /\ last.result.ok

(***************************************************************************)
(* C6. For local and remote sources alike, a record whose last_fetch lies  *)
(* more than ttl_seconds in the past is invalid and its embedded model is  *)
(* never returned, whatever the mtime, ETag, Last-Modified and hashes say; *)
(* the TTL test comes first, so the freshness check of such a record stats *)
(* no file and sends no HEAD request.                                      *)
(***************************************************************************)
Checking == last.op \in {"check_remote", "check_local"}

C6_TreatedAsExpired ==
    /\ (Parsed => last.path = "cold" /\ last.io # "none")
    /\ (last.checked => ~last.valid)
    /\ ~last.stat /\ ~last.head_sent

\* as claimed: last_fetch lies more than ttl_seconds in the past, to the tick
C6_AsClaimed ==
    (Parsed \/ Checking) /\ PreReadable
    /\ AgeTicks(PreRec, now) > PreRec.ttl_seconds * TicksPerSec
        => C6_TreatedAsExpired

\* as amended: more whole seconds than ttl_seconds have passed since last_fetch
C6_TtlFirst ==
    (Parsed \/ Checking) /\ PreReadable /\ TtlElapsed(PreRec, now)
        => C6_TreatedAsExpired

\* an expired record of the requested local file whose mtime and hashes still match
C6_Witness ==
    /\ Parsed /\ PreReadable
    /\ TtlElapsed(PreRec, now)
    /\ last.source = LocalPath /\ PreRec.source = LocalPath
    /\ Unedited(last.pre)
    /\ files[LocalPath].exists
    /\ PreRec.local_cache.mtime = Some(to_rfc3339(files[LocalPath].mtime))
    /\ PreEmbedded.doc = files[LocalPath].content

(***************************************************************************)
(* C7. The TTL against which a call judges the persisted record is the ttl *)
(* override passed to that call, and 86400 seconds when none is passed: a  *)
(* call with an override smaller than the record's age does not return the *)
(* cached model.                                                           *)
(***************************************************************************)
CallTtl == IF IsSome(last.ttl) THEN Unwrap(last.ttl) ELSE 86400

\* as claimed
C7_AsClaimed ==
    Parsed /\ PreReadable /\ AgeSeconds(PreRec, now) > CallTtl => last.path = "cold"

\* as amended: the record is judged against the ttl_seconds it stores, and the
\* call's override (86400 without one) becomes the ttl_seconds of the record
\* the call writes
C7_RecordTtlJudges ==
    /\ (Parsed /\ last.path = "hit" => ~TtlElapsed(PreRec, now))
    /\ (Parsed /\ last.save = "ok" =>
           cacheFile.kind = "json" /\ PostRec.ttl_seconds = CallTtl)
    /\ (Parsed /\ last.path = "hit" => cacheFile.kind = "json"
                                       /\ PostRec.ttl_seconds = PreRec.ttl_seconds)

\* a record written without an override is returned to a call whose override
\* is smaller than the record's age
C7_Witness ==
    /\ Parsed /\ last.path = "hit"
    /\ PreRec.ttl_seconds = 86400
    /\ last.ttl = Some(0)
    /\ AgeSeconds(PreRec, now) > 0

(***************************************************************************)
(* C8. For a remote record within its TTL whose HEAD request returns a     *)
(* response: if the response carries an ETag and the record stores one,    *)
(* the record is valid exactly when the two are equal (Last-Modified is    *)
(* not consulted); otherwise, if the response carries Last-Modified and    *)
(* the record stores one, exactly when those are equal; otherwise valid.   *)
(***************************************************************************)
C8Case ==
    /\ last.op = "check_remote"
    /\ PreReadable
    /\ ~TtlElapsed(PreRec, now)
    /\ last.head.kind = "resp"

\* a header of the response equals a stored string
HeaderEquals(h, stored) == Unwrap(h).text /\ Unwrap(h).v = Unwrap(stored)
\* a header of the response is there and is visible ASCII text
Readable(h) == IsSome(h) /\ Unwrap(h).text

\* as claimed: any ETag (Last-Modified) header the response carries counts
C8_AsClaimed ==
    C8Case =>
        IF IsSome(last.head.etag) /\ IsSome(PreRec.http_cache.etag)
        THEN last.valid <=> HeaderEquals(last.head.etag, PreRec.http_cache.etag)
        ELSE IF IsSome(last.head.lm) /\ IsSome(PreRec.http_cache.last_modified)
        THEN last.valid <=> HeaderEquals(last.head.lm, PreRec.http_cache.last_modified)
        ELSE last.valid

\* as amended: a header that is not visible ASCII text counts as not carried
C8_ValidatorOrder ==
    C8Case =>
        IF Readable(last.head.etag) /\ IsSome(PreRec.http_cache.etag)
        THEN last.valid <=> HeaderEquals(last.head.etag, PreRec.http_cache.etag)
        ELSE IF Readable(last.head.lm) /\ IsSome(PreRec.http_cache.last_modified)
        THEN last.valid <=> HeaderEquals(last.head.lm, PreRec.http_cache.last_modified)
        ELSE last.valid

\* the ETags differ although the Last-Modified values agree: invalid
C8_Witness ==
    /\ C8Case
    /\ last.head.etag = TextHeader("e2") /\ PreRec.http_cache.etag = Some("e1")
    /\ last.head.lm = TextHeader("m1") /\ PreRec.http_cache.last_modified = Some("m1")
    /\ ~last.valid

(***************************************************************************)
(* C9. When the HEAD request fails at the network layer, the record is     *)
(* reported valid only if its TTL has not elapsed; with an elapsed TTL an   *)
(* unreachable origin never has the cached model served: the call goes to   *)
(* the cold path, whose failure is the call's error.                       *)
(***************************************************************************)
C9_FailOpenWithinTtlOnly ==
    /\ (last.op = "check_remote" /\ last.head.kind = "neterr"
           => last.valid /\ ~TtlElapsed(PreRec, now))
    /\ (Parsed /\ last.source = RemoteUrl /\ PreReadable /\ TtlElapsed(PreRec, now)
           => /\ last.path = "cold" /\ last.io = "get" /\ ~last.head_sent
              /\ (last.get.kind = "neterr" => last.result = Err("ConnectionFailed")))

\* the record of the URL has expired and the origin cannot be reached
C9_Witness ==
    /\ Parsed /\ last.source = RemoteUrl /\ PreReadable
    /\ PreRec.source = RemoteUrl /\ Unedited(last.pre)
    /\ TtlElapsed(PreRec, now)
    /\ last.get.kind = "neterr"
    /\ ~last.result.ok

(***************************************************************************)
(* C10. For a local source a record is valid exactly when its TTL has not  *)
(* elapsed, the file can be stat'ed, the record stores an mtime and the    *)
(* file's modification time as an RFC3339 string equals it; so a record    *)
(* without a stored mtime is never reused for a local source.              *)
(***************************************************************************)
C10_AsClaimed ==
    Parsed /\ last.source \in LocalPaths =>
        /\ (last.checked =>
               (last.valid <=>
                   /\ ~TtlElapsed(PreRec, now)
                   /\ files[last.source].exists
                   /\ PreRec.local_cache.mtime
                          = Some(to_rfc3339(files[last.source].mtime))))
        /\ (last.path = "hit" => IsSome(PreRec.local_cache.mtime))

(***************************************************************************)
(* save_cache, step by step (cache.rs:43-64), with the file system as the  *)
(* program sees it: a directory that links the canonical path and the      *)
(* temporary path to inodes, and the contents of the inodes.  std::fs::write*)
(* opens the temporary path (creating or truncating it) and then writes    *)
(* the serialized record with one or more write calls; std::fs::rename     *)
(* relinks the canonical path in one step.  load_cache (cache.rs:35-40)    *)
(* opens the canonical path and reads to the end of the file.              *)
(***************************************************************************)
\* write calls that std::fs::write needs for one serialized record
RecordChunks == 2
\* save_cache calls of one writer
MaxSaves == 2

Writers == {"w1", "w2"}
Reader == "r"

\* cache.rs:24-26 and cache.rs:56: the two paths in the project directory
cache_path == "cache"
\* as temp_path, but the record is written in place
temp_path_in_place == cache_path
temp_path == "tmp"

NoInode == 0
\* the record the serializer produced, as the chunks the write calls carry
to_string_pretty(rec) == [k \in 1..RecordChunks |-> <<rec, k>>]
Hole == <<"hole">>
OldRecord == <<"old", 0>>

\* the bytes are those of one whole record
Complete(content) ==
    Len(content) = RecordChunks /\ content = to_string_pretty(content[1][1])

\* the file that load_cache parses, from the bytes it has read
AsCacheFile(content) == IF Complete(content) THEN Json(content[1][1]) ELSE Garbage

\* write(fd, chunk) at offset off of an inode's content
WriteAt(content, off, chunk) ==
    [k \in 1..(IF Len(content) > off THEN Len(content) ELSE off + 1) |->
        IF k = off + 1 THEN chunk
        ELSE IF k <= Len(content) THEN content[k] ELSE Hole]

IdleWriter(n) == [pc |-> "idle", n |-> n, fd |-> NoInode, off |-> 0, res |-> "none"]
IdleReader == [pc |-> "idle", fd |-> NoInode, off |-> 0, buf |-> <<>>, res |-> Err("none")]

\* the canonical file is absent or holds the previously persisted record;
\* one process or two processes use the project directory
InitSave ==
    /\ \E old \in BOOLEAN :
         store = [dir |-> [p \in {cache_path, temp_path} |->
                              IF old /\ p = cache_path THEN 1 ELSE NoInode],
                  inodes |-> IF old THEN <<to_string_pretty(OldRecord)>> ELSE <<>>]
    /\ \E ws \in {{"w1"}, Writers} :
         procs = [p \in ws \cup {Reader} |-> IF p = Reader THEN IdleReader ELSE IdleWriter(0)]
    /\ now = 0 /\ files = Unused /\ cacheFile = Unused /\ tmpFile = Unused
    /\ last = Unused /\ call = Unused

ActiveWriters == DOMAIN procs \ {Reader}

\* save_cache is entered; cache.rs:47-53
CreateDirAll(w) ==
    /\ procs[w].pc = "idle" /\ procs[w].n < MaxSaves
    /\ \E ok \in BOOLEAN :
         procs' = [procs EXCEPT ![w] =
                      IF ok THEN [IdleWriter(@.n + 1) EXCEPT !.pc = "open"]
                      ELSE [IdleWriter(@.n + 1) EXCEPT !.res = "CacheWriteFailed"]]
    /\ UNCHANGED <<store, cacheVars, call>>

\* cache.rs:57, std::fs::write opens temp_path: O_CREAT | O_TRUNC
OpenTemp(w) ==
    /\ procs[w].pc = "open"
    /\ \/ /\ store.dir[temp_path] # NoInode
          /\ store' = [store EXCEPT !.inodes[store.dir[temp_path]] = <<>>]
          /\ procs' = [procs EXCEPT ![w].pc = "write", ![w].fd = store.dir[temp_path]]
       \/ /\ store.dir[temp_path] = NoInode
          /\ store' = [dir |-> [store.dir EXCEPT ![temp_path] = Len(store.inodes) + 1],
                       inodes |-> Append(store.inodes, <<>>)]
          /\ procs' = [procs EXCEPT ![w].pc = "write", ![w].fd = Len(store.inodes) + 1]
       \/ /\ procs' = [procs EXCEPT ![w] = [IdleWriter(@.n) EXCEPT !.res = "CacheWriteFailed"]]
          /\ UNCHANGED store
    /\ UNCHANGED <<cacheVars, call>>

\* cache.rs:57, one write call of std::fs::write, or its failure
WriteTemp(w) ==
    /\ procs[w].pc = "write" /\ procs[w].off < RecordChunks
    /\ \/ /\ store' = [store EXCEPT !.inodes[procs[w].fd] =
                          WriteAt(@, procs[w].off,
                                  to_string_pretty(<<w, procs[w].n>>)[procs[w].off + 1])]
          /\ procs' = [procs EXCEPT ![w].off = @ + 1]
       \/ /\ procs' = [procs EXCEPT ![w] = [IdleWriter(@.n) EXCEPT !.res = "CacheWriteFailed"]]
          /\ UNCHANGED store
    /\ UNCHANGED <<cacheVars, call>>

\* cache.rs:60-61, std::fs::rename(temp_path, path)
Rename(w) ==
    /\ procs[w].pc = "write" /\ procs[w].off = RecordChunks
    /\ \/ /\ store.dir[temp_path] # NoInode
          /\ store' = [store EXCEPT !.dir = [p \in DOMAIN store.dir |->
                                                IF p = cache_path THEN store.dir[temp_path]
                                                ELSE IF p = temp_path THEN NoInode
                                                ELSE store.dir[p]]]
          /\ procs' = [procs EXCEPT ![w] = [IdleWriter(@.n) EXCEPT !.res = "Ok"]]
       \/ /\ procs' = [procs EXCEPT ![w] = [IdleWriter(@.n) EXCEPT !.res = "CacheWriteFailed"]]
          /\ UNCHANGED store
    /\ UNCHANGED <<cacheVars, call>>

\* the process dies inside save_cache, after any of its steps
Crash(w) ==
    /\ procs[w].pc # "idle"
    /\ procs' = [procs EXCEPT ![w] = [IdleWriter(@.n) EXCEPT !.res = "crashed"]]
    /\ UNCHANGED <<store, cacheVars, call>>

\* cache.rs:37, read_to_string opens the canonical path
OpenCache ==
    /\ procs[Reader].pc = "idle"
    /\ procs' = [procs EXCEPT ![Reader] =
                    IF store.dir[cache_path] = NoInode
                    THEN [IdleReader EXCEPT !.res = load_cache(NoFile)]
                    ELSE [IdleReader EXCEPT !.pc = "read", !.fd = store.dir[cache_path]]]
    /\ UNCHANGED <<store, cacheVars, call>>

\* cache.rs:37-39, read_to_string reads on to the end of the file; then the
\* text is parsed
ReadCache ==
    /\ procs[Reader].pc = "read"
    /\ procs' = [procs EXCEPT ![Reader] =
                    IF @.off < Len(store.inodes[@.fd])
                    THEN [@ EXCEPT !.off = @ + 1,
                                   !.buf = Append(@, store.inodes[procs[Reader].fd]
                                                                 [procs[Reader].off + 1])]
                    ELSE [IdleReader EXCEPT !.res = load_cache(AsCacheFile(procs[Reader].buf))]]
    /\ UNCHANGED <<store, cacheVars, call>>

NextSave ==
    \/ \E w \in ActiveWriters : CreateDirAll(w)
    \/ \E w \in ActiveWriters : OpenTemp(w)
    \/ \E w \in ActiveWriters : WriteTemp(w)
    \/ \E w \in ActiveWriters : Rename(w)
    \/ \E w \in ActiveWriters : Crash(w)
    \/ OpenCache
    \/ ReadCache

SpecSave == InitSave /\ [][NextSave]_vars

\* what a load_cache at this moment would be given, were it to read at once
CanonicalFile ==
    IF store.dir[cache_path] = NoInode THEN NoFile
    ELSE AsCacheFile(store.inodes[store.dir[cache_path]])
\* load_cache has returned a record or an error
ReaderReturned == procs[Reader].pc = "idle" /\ procs[Reader].res # Err("none")
SingleWriter == Cardinality(ActiveWriters) = 1

(***************************************************************************)
(* C11. With a single writer, in every state of save_cache, a crash or an  *)
(* error after any step included, the canonical cache file is absent, the  *)
(* complete previous record or the complete new record; load_cache never   *)
(* reads a partially written record.                                       *)
(***************************************************************************)
C11_AtomicSave ==
    SingleWriter =>
        /\ CanonicalFile # Garbage
        /\ (ReaderReturned => procs[Reader].res # Err("CacheCorrupted"))

\* the first save replaced the previous record, the second one crashed in the
\* middle of its write and left half a temp file; the reader gets the record
\* of the first save
C11_Witness ==
    /\ SingleWriter
    /\ Len(store.inodes) >= 1 /\ store.inodes[1] = to_string_pretty(OldRecord)
    /\ CanonicalFile = Json(<<"w1", 1>>)
    /\ procs["w1"].n = 2 /\ procs["w1"].res = "crashed"
    /\ store.dir[temp_path] # NoInode /\ Len(store.inodes[store.dir[temp_path]]) = 1
    /\ ReaderReturned /\ procs[Reader].res = Ok(<<"w1", 1>>)

(***************************************************************************)
(* C12. When two or more processes run save_cache concurrently for one     *)
(* project directory, in every interleaving of their write and rename      *)
(* steps the canonical cache file holds one complete record written by     *)
(* exactly one writer, never a partial record or a mixture of two writers' *)
(* bytes.                                                                  *)
(***************************************************************************)
C12_AsClaimed ==
    ~SingleWriter =>
        /\ CanonicalFile # Garbage
        /\ (ReaderReturned => procs[Reader].res # Err("CacheCorrupted"))

(***************************************************************************)
(* Reading a source (parser.rs:50-137): OpenApiParser::parse, the entry    *)
(* that tools/parse.rs:124 uses without a cache, next to parse_with_cache, *)
(* which tools/parse.rs:101-106 uses with one.                             *)
(***************************************************************************)
\* str::contains
contains(s, p) ==
    \E i \in 0..(Len(s) - Len(p)) : SubSeq(s, i + 1, i + Len(p)) = p

DOTDOT == <<".", ".">>
\* a path with a parent-directory segment, and a symbolic link whose target
\* lies in a directory that has ".." in its name
ParentPath == <<".", ".", "/", "a">>
LinkPath == <<"l">>
ReadPaths == {LocalPath, ParentPath, LinkPath}

\* Path::canonicalize: the absolute path without links and dot segments
canonicalize(path, fs) ==
    IF path \notin DOMAIN fs \/ ~fs[path].exists THEN Err("NotFound")
    ELSE IF fs[path].access = "unsearchable" THEN Err("PermissionDenied")
    ELSE IF path = LinkPath THEN Ok(<<"/", "b", ".", ".", "c", "/", "a">>)
    ELSE Ok(<<"/", "a">>)

\* OpenApiParser::read_local; io is the file-system access that was made
read_local(path, fs) ==
    IF contains(path, DOTDOT)
    THEN [res |-> Err("PathTraversal"), io |-> "none"]
    ELSE LET canonical == canonicalize(path, fs)
         IN IF ~canonical.ok
            THEN [res |-> IF Unwrap(canonical.err) = "NotFound"
                          THEN Err("FileNotFound") ELSE Err("PathTraversal"),
                  io |-> "canonicalize"]
            ELSE IF contains(Unwrap(canonical.val), DOTDOT)
            THEN [res |-> Err("PathTraversal"), io |-> "canonicalize"]
            ELSE LET content == read_to_string(path, fs)
                 IN [res |-> IF content.ok THEN content
                             ELSE IF Unwrap(content.err) = "NotFound"
                             THEN Err("FileNotFound")
                             ELSE IF Unwrap(content.err) = "PermissionDenied"
                             THEN Err("PermissionDenied")
                             ELSE Err("ReadError"),
                     io |-> "canonicalize+read"]

\* OpenApiParser::fetch_remote
fetch_remote(url, get) ==
    IF get.kind \in {"buildfail", "neterr"} THEN Err("ConnectionFailed")
    ELSE IF get.kind = "status" THEN Err("HttpError")
    ELSE Ok(<<get.content, [etag |-> header_string(get.etag),
                            last_modified |-> header_string(get.lm)]>>)

\* OpenApiParser::fetch_content
fetch_content(source, fs, get) ==
    IF starts_with(source, HTTP_SCHEME) \/ starts_with(source, HTTPS_SCHEME)
    THEN [res |-> fetch_remote(source, get), io |-> "get"]
    ELSE LET content == read_local(source, fs)
         IN [res |-> IF content.res.ok
                     THEN Ok(<<Unwrap(content.res.val), [etag |-> None, last_modified |-> None]>>)
                     ELSE content.res,
             io |-> content.io]

\* OpenApiParser::parse_with_headers
parse_with_headers(source, fs, get, tags) ==
    LET fetched == fetch_content(source, fs, get)
    IN IF ~fetched.res.ok
       THEN [res |-> fetched.res, io |-> fetched.io, normalized |-> FALSE]
       ELSE LET spec == parse_content(Unwrap(fetched.res.val)[1], source, tags)
            IN [res |-> IF spec.ok THEN Ok(<<Unwrap(spec.val), Unwrap(fetched.res.val)[2]>>)
                        ELSE spec,
                io |-> fetched.io, normalized |-> TRUE]

\* OpenApiParser::parse
parse(source, fs, get, tags) ==
    LET parsed == parse_with_headers(source, fs, get, tags)
    IN [result |-> IF parsed.res.ok THEN Ok(Unwrap(parsed.res.val)[1]) ELSE parsed.res,
        io |-> parsed.io, normalized |-> parsed.normalized]

\* the states of a spec file
FileStates ==
    {NoSpecFile, SpecFile("d1", 0), SpecFile("bad", 0)}
    \cup {DeniedFile(how) : how \in {"unreadable", "unsearchable", "not_utf8"}}

ReadSources == ReadPaths \cup {RemoteUrl}

InitRead ==
    /\ now = 0
    /\ files \in [ReadPaths -> FileStates]
    /\ cacheFile = NoFile
    /\ tmpFile = NoFile
    /\ last = NoCall
    /\ store = Unused /\ procs = Unused /\ call = Unused

\* tools/parse.rs:124, parse_spec calls OpenApiParser::parse(source)
Parse(source) ==
    /\ last.op = "none"
    /\ \E get \in (IF fetch_content(source, files, NetErr).io = "get"
                   THEN GetOutcomes ELSE {NoRequest}) :
       \E r \in {parse(source, files, get, 1)} :
           last' = [NoCall EXCEPT !.op = "parse_direct", !.source = source,
                                  !.get = get, !.result = r.result,
                                  !.path = "cold", !.io = r.io,
                                  !.normalized = r.normalized]
    /\ UNCHANGED <<now, files, cacheFile, tmpFile>>
    /\ UNCHANGED others

NextRead ==
    \/ \E source \in ReadSources : Parse(source)
    \/ \E source \in ReadSources : ParseWithCache(source, None)
    \/ Respond

SpecRead == InitRead /\ [][NextRead]_vars

\* the call resolved a local source, with or without the cache
ReadLocal ==
    /\ last.op \in {"parse", "parse_direct"}
    /\ ~(starts_with(last.source, HTTP_SCHEME) \/ starts_with(last.source, HTTPS_SCHEME))

(***************************************************************************)
(* C13. A local source path that contains a parent-directory segment ("..")*)
(* is rejected with a path-traversal error before any file-system access   *)
(* (stat, canonicalize or read), on the direct parse path and on the       *)
(* cached path.                                                            *)
(***************************************************************************)
C13_AsClaimed ==
    ReadLocal /\ contains(last.source, DOTDOT) =>
        /\ last.result = Err("PathTraversal")
        /\ last.io = "none" /\ ~last.stat

(***************************************************************************)
(* C14. Reading a local source reports a missing file as the not-found     *)
(* kind and an unreadable file as the permission-denied kind, distinct     *)
(* from the path-traversal and the generic read-failure kinds, whichever   *)
(* step (canonicalize or read) detects it, with or without caching.        *)
(***************************************************************************)
C14_AsClaimed ==
    ReadLocal /\ ~contains(last.source, DOTDOT) /\ last.path = "cold" =>
        /\ (~files[last.source].exists => last.result = Err("FileNotFound"))
        /\ (files[last.source].exists
            /\ files[last.source].access \in {"unreadable", "unsearchable"}
               => last.result = Err("PermissionDenied"))

(***************************************************************************)
(* The parser's functions on JSON values (parser.rs:140-181, 917-1005).    *)
(* A serde_json::Value is null, a boolean, a number, a string, an array or *)
(* an object; an object is kept as the sequence of its members in the      *)
(* order in which the Map iterates.  Text is a sequence of characters.     *)
(***************************************************************************)
JNull == [t |-> "null", v |-> 0]
JBool(b) == [t |-> "bool", v |-> b]
JNum(n) == [t |-> "num", v |-> n]
JStr(s) == [t |-> "str", v |-> s]
JArr(items) == [t |-> "arr", v |-> items]
JObj(members) == [t |-> "obj", v |-> members]

\* the keys of an object, in the order of the Map
keys(obj) == [i \in 1..Len(obj.v) |-> obj.v[i][1]]
\* Value::get(key) and obj[key]
get(value, key) ==
    IF value.t = "obj" /\ \E i \in 1..Len(value.v) : value.v[i][1] = key
    THEN Some(value.v[CHOOSE i \in 1..Len(value.v) : value.v[i][1] = key][2])
    ELSE None
\* Value::as_str
as_str(value) == IF value.t = "str" THEN Some(value.v) ELSE None

\* the characters that occur, in the order of their bytes
Ascii ==
    <<"\"", "#", "$", ",", ".", "/", "0", "1", "2", "3", "4", "5", "6", "7", "8", "9",
      ":", "B", "E", "G", "O", "P", "T", "U", "[", "\\", "]", "a", "b", "c", "d", "e", "f", "g", "h", "i", "j",
      "k", "l", "m", "n", "o", "p", "q", "r", "s", "t", "u", "v", "w", "x", "y", "z",
      "{", "}">>
Code(c) == CHOOSE i \in 1..Len(Ascii) : Ascii[i] = c

\* String's Ord: byte by byte, a proper prefix first
RECURSIVE str_lt(_, _)
str_lt(s, t) ==
    IF t = <<>> THEN FALSE
    ELSE IF s = <<>> THEN TRUE
    ELSE IF Head(s) # Head(t) THEN Code(Head(s)) < Code(Head(t))
    ELSE str_lt(Tail(s), Tail(t))

\* Vec::sort on strings
RECURSIVE insert_sorted(_, _)
insert_sorted(x, v) ==
    IF v = <<>> THEN <<x>>
    ELSE IF str_lt(Head(v), x) \/ Head(v) = x THEN <<Head(v)>> \o insert_sorted(x, Tail(v))
    ELSE <<x>> \o v
RECURSIVE sort(_)
sort(v) == IF v = <<>> THEN <<>> ELSE insert_sorted(v[Len(v)], sort(SubSeq(v, 1, Len(v) - 1)))

\* Vec::dedup: consecutive repetitions are dropped
RECURSIVE dedup(_)
dedup(v) ==
    IF Len(v) <= 1 THEN v
    ELSE IF v[1] = v[2] THEN dedup(Tail(v))
    ELSE <<v[1]>> \o dedup(Tail(v))

\* str::replace(pat, ""): every occurrence of pat is removed, from the left
RECURSIVE replace(_, _)
replace(s, pat) ==
    IF Len(s) < Len(pat) THEN s
    ELSE IF SubSeq(s, 1, Len(pat)) = pat THEN replace(SubSeq(s, Len(pat) + 1, Len(s)), pat)
    ELSE <<Head(s)>> \o replace(Tail(s), pat)

\* u64::to_string
RECURSIVE to_digits(_)
to_digits(n) ==
    IF n < 10 THEN <<Ascii[Code("0") + n]>>
    ELSE to_digits(n \div 10) \o <<Ascii[Code("0") + (n % 10)]>>

S_SWAGGER == <<"s", "w", "a", "g", "g", "e", "r">>
S_OPENAPI == <<"o", "p", "e", "n", "a", "p", "i">>
S_REF == <<"$", "r", "e", "f">>
S_DEFINITIONS == <<"#", "/", "d", "e", "f", "i", "n", "i", "t", "i", "o", "n", "s", "/">>
S_COMPONENTS_SCHEMAS ==
    <<"#", "/", "c", "o", "m", "p", "o", "n", "e", "n", "t", "s", "/",
      "s", "c", "h", "e", "m", "a", "s", "/">>

\* OpenApiParser::detect_version
detect_version(value) ==
    LET swagger == IF IsSome(get(value, S_SWAGGER))
                   THEN as_str(Unwrap(get(value, S_SWAGGER))) ELSE None
        openapi == IF IsSome(get(value, S_OPENAPI))
                   THEN as_str(Unwrap(get(value, S_OPENAPI))) ELSE None
    IN IF IsSome(swagger) /\ starts_with(Unwrap(swagger), <<"2", ".">>)
       THEN Ok("Swagger2")
       ELSE IF IsSome(openapi)
       THEN IF starts_with(Unwrap(openapi), <<"3", ".", "0">>) THEN Ok("OpenApi30")
            ELSE IF starts_with(Unwrap(openapi), <<"3", ".", "1">>) THEN Ok("OpenApi31")
            ELSE Err("UnsupportedVersion")
       ELSE Err("InvalidOpenApi")

\* the Map of serde_json iterates in key order (BTreeMap) or, when the build
\* enables the preserve_order feature, in insertion order (IndexMap)
MapOrders == {"sorted", "insertion"}

\* serde_json::from_str (parser.rs:143), from the document as it is written
RECURSIVE from_str(_, _)
from_str(raw, order) ==
    IF raw.t = "arr" THEN JArr([i \in 1..Len(raw.v) |-> from_str(raw.v[i], order)])
    ELSE IF raw.t = "obj"
    THEN LET ks == IF order = "sorted" THEN sort(keys(raw)) ELSE keys(raw)
         IN JObj([i \in 1..Len(ks) |-> <<ks[i], from_str(Unwrap(get(raw, ks[i])), order)>>])
    ELSE raw

\* as sorted_keys, but the keys are taken as the Map iterates
unsorted_keys(obj) == keys(obj)
\* parser.rs:946-947, keys.sort()
sorted_keys(obj) == sort(keys(obj))

\* Sha256 of the bytes fed, hex of the first 8 bytes of the digest; distinct
\* inputs keep distinct digests, so equal digests come from equal input
sha256_hex(fed) == <<"sha", fed>>

\* OpenApiParser::collect_refs_and_hash: the refs pushed and the bytes fed
RECURSIVE collect_refs_and_hash(_)
RECURSIVE collect_members(_, _)
RECURSIVE collect_items(_)
collect_refs_and_hash(value) ==
    IF value.t = "obj"
    THEN LET inner == collect_members(value, sorted_keys(value))
         IN [refs |-> inner.refs, fed |-> <<"{">> \o inner.fed \o <<"}">>]
    ELSE IF value.t = "arr"
    THEN LET inner == collect_items(value.v)
         IN [refs |-> inner.refs, fed |-> <<"[">> \o inner.fed \o <<"]">>]
    ELSE IF value.t = "str" THEN [refs |-> <<>>, fed |-> <<"\"">> \o value.v \o <<"\"">>]
    ELSE IF value.t = "num" THEN [refs |-> <<>>, fed |-> to_digits(value.v)]
    ELSE IF value.t = "bool"
    THEN [refs |-> <<>>, fed |-> IF value.v THEN <<"t", "r", "u", "e">>
                                 ELSE <<"f", "a", "l", "s", "e">>]
    ELSE [refs |-> <<>>, fed |-> <<"n", "u", "l", "l">>]

\* parser.rs:949-966, the loop over the sorted keys
collect_members(obj, ks) ==
    IF ks = <<>> THEN [refs |-> <<>>, fed |-> <<>>]
    ELSE LET key == Head(ks)
             val == Unwrap(get(obj, key))
             own == IF key = S_REF /\ IsSome(as_str(val))
                    THEN <<replace(replace(Unwrap(as_str(val)), S_DEFINITIONS),
                                   S_COMPONENTS_SCHEMAS)>>
                    ELSE <<>>
             sub == collect_refs_and_hash(val)
             rest == collect_members(obj, Tail(ks))
         IN [refs |-> own \o sub.refs \o rest.refs,
             fed |-> key \o <<":">> \o sub.fed \o rest.fed]

\* parser.rs:972-974, the loop over the elements
collect_items(arr) ==
    IF arr = <<>> THEN [refs |-> <<>>, fed |-> <<>>]
    ELSE LET sub == collect_refs_and_hash(Head(arr))
             rest == collect_items(Tail(arr))
         IN [refs |-> sub.refs \o rest.refs, fed |-> sub.fed \o rest.fed]

\* OpenApiParser::extract_refs_and_hash
extract_refs_and_hash(value) ==
    [refs |-> dedup(sort(collect_refs_and_hash(value).refs)),
     hash |-> sha256_hex(collect_refs_and_hash(value).fed)]

\* the escapes of serde_json's string serializer
RECURSIVE escape(_)
escape(s) ==
    IF s = <<>> THEN <<>>
    ELSE IF Head(s) \in {"\"", "\\"} THEN <<"\\", Head(s)>> \o escape(Tail(s))
    ELSE <<Head(s)>> \o escape(Tail(s))

\* serde_json::to_string: compact JSON, the members in the order of the Map
RECURSIVE to_string(_)
RECURSIVE join_members(_)
RECURSIVE join_items(_)
to_string(value) ==
    IF value.t = "obj" THEN <<"{">> \o join_members(value.v) \o <<"}">>
    ELSE IF value.t = "arr" THEN <<"[">> \o join_items(value.v) \o <<"]">>
    ELSE IF value.t = "str" THEN <<"\"">> \o escape(value.v) \o <<"\"">>
    ELSE IF value.t = "num" THEN to_digits(value.v)
    ELSE IF value.t = "bool"
    THEN IF value.v THEN <<"t", "r", "u", "e">> ELSE <<"f", "a", "l", "s", "e">>
    ELSE <<"n", "u", "l", "l">>

join_members(ms) ==
    IF ms = <<>> THEN <<>>
    ELSE <<"\"">> \o escape(Head(ms)[1]) \o <<"\"", ":">> \o to_string(Head(ms)[2])
         \o (IF Len(ms) > 1 THEN <<",">> \o join_members(Tail(ms)) ELSE <<>>)

join_items(arr) ==
    IF arr = <<>> THEN <<>>
    ELSE to_string(Head(arr))
         \o (IF Len(arr) > 1 THEN <<",">> \o join_items(Tail(arr)) ELSE <<>>)

\* OpenApiParser::compute_hash on a serde_json::Value (parser.rs:999-1005)
compute_hash_value(value) == sha256_hex(to_string(value))

(***************************************************************************)
(* The documents the functions are applied to.                             *)
(***************************************************************************)
\* longest array and largest object
MaxItems == 2

SeqsUpTo(S, n) == UNION {[1..k -> S] : k \in 0..n}

\* values of a version field
VersionStrings ==
    {<<"2", ".", "0">>, <<"2">>, <<"1", ".", "2">>,
     <<"3", ".", "0", ".", "3">>, <<"3", ".", "1", ".", "0">>, <<"3", ".", "1", "0", ".", "0">>,
     <<"3", ".", "2", ".", "0">>, <<"4", ".", "0", ".", "0">>}
VersionValues == {JNum(2)} \cup {JStr(v) : v \in VersionStrings}
\* documents with, and without, a swagger field and an openapi field
VersionDocs ==
    {JObj(<<>>)}
    \cup {JObj(<<<<S_SWAGGER, v>>>>) : v \in VersionValues}
    \cup {JObj(<<<<S_OPENAPI, v>>>>) : v \in VersionValues}
    \cup {JObj(<<<<S_SWAGGER, v>>, <<S_OPENAPI, w>>>>) : v \in VersionValues, w \in VersionValues}

\* $ref targets: of either dialect, a bare name, and a schema of another file
RefUser == S_DEFINITIONS \o <<"U">>
RefPost == S_COMPONENTS_SCHEMAS \o <<"P">>
RefBare == <<"P">>
RefExternal == <<"x">> \o S_DEFINITIONS \o <<"U">>

Nums == {1, 2, 11, 12}
Leaves ==
    {JNull, JBool(TRUE)} \cup {JNum(n) : n \in Nums}
    \cup {JStr(r) : r \in {RefUser, RefPost, RefBare, RefExternal}}
Arrays == {JArr(items) : items \in SeqsUpTo({JNum(n) : n \in Nums}, MaxItems)}

Keys == {S_REF, <<"a">>, <<"b">>}
MemberValues == {JNum(1), JStr(RefUser), JStr(RefExternal)}
KeySeqs ==
    {ks \in SeqsUpTo(Keys, MaxItems) : \A i, j \in 1..Len(ks) : i # j => ks[i] # ks[j]}
Objects ==
    UNION {{JObj([i \in 1..Len(ks) |-> <<ks[i], vs[i]>>]) : vs \in [1..Len(ks) -> MemberValues]} :
              ks \in KeySeqs}

\* $ref at depth: inside an array, and inside an array inside an object
RefObjs == {JObj(<<<<S_REF, v>>>>) : v \in {JStr(RefUser), JStr(RefPost), JNum(1)}}
PairObjs == {JObj(<<<<S_REF, JStr(RefPost)>>, <<<<"a">>, JNum(1)>>>>),
             JObj(<<<<<<"a">>, JNum(1)>>, <<S_REF, JStr(RefPost)>>>>)}
Nested == {JArr(<<o, p>>) : o \in RefObjs, p \in RefObjs}
Deep ==
    {JObj(<<<<<<"a">>, JArr(<<o>>)>>, <<<<"b">>, p>>>>) : o \in PairObjs, p \in RefObjs}
    \cup {JObj(<<<<<<"b">>, p>>, <<<<"a">>, JArr(<<o>>)>>>>) : o \in PairObjs, p \in RefObjs}

Values == Leaves \cup Arrays \cup Objects \cup Nested \cup Deep

Pending(fn, a, b, order) ==
    [fn |-> fn, a |-> a, b |-> b, order |-> order, done |-> FALSE, ra |-> <<>>, rb |-> <<>>]

\* a call of detect_version on a document, or of one of the hash functions on
\* two values
InitParser ==
    /\ \/ \E d \in VersionDocs, order \in MapOrders :
            call = Pending("detect_version", d, d, order)
       \/ \E fn \in {"extract_refs_and_hash", "compute_hash"}, a \in Values, b \in Values,
             order \in MapOrders :
            call = Pending(fn, a, b, order)
    /\ now = 0 /\ files = Unused /\ cacheFile = Unused /\ tmpFile = Unused
    /\ last = Unused /\ store = Unused /\ procs = Unused

\* parser.rs:143-149, parse_content: from_str, then detect_version
DetectVersion ==
    /\ call.fn = "detect_version" /\ ~call.done
    /\ call' = [call EXCEPT !.done = TRUE,
                            !.ra = detect_version(from_str(call.a, call.order)),
                            !.rb = detect_version(from_str(call.b, call.order))]
    /\ UNCHANGED <<cacheVars, store, procs>>

\* parser.rs:249, 357, 565, 672: extract_refs_and_hash on a part of the document
ExtractRefsAndHash ==
    /\ call.fn = "extract_refs_and_hash" /\ ~call.done
    /\ call' = [call EXCEPT !.done = TRUE,
                            !.ra = extract_refs_and_hash(from_str(call.a, call.order)),
                            !.rb = extract_refs_and_hash(from_str(call.b, call.order))]
    /\ UNCHANGED <<cacheVars, store, procs>>

\* parser.rs:221, 535: compute_hash on the whole document
ComputeHash ==
    /\ call.fn = "compute_hash" /\ ~call.done
    /\ call' = [call EXCEPT !.done = TRUE,
                            !.ra = compute_hash_value(from_str(call.a, call.order)),
                            !.rb = compute_hash_value(from_str(call.b, call.order))]
    /\ UNCHANGED <<cacheVars, store, procs>>

NextParser ==
    \/ DetectVersion
    \/ ExtractRefsAndHash
    \/ ComputeHash

SpecParser == InitParser /\ [][NextParser]_vars

(***************************************************************************)
(* Vocabulary of the properties of the parser's functions.                 *)
(***************************************************************************)
Called(fn) == call.fn = fn /\ call.done

\* the same JSON value: objects with the same keys and the same value under
\* each key, arrays with the same elements in the same order, equal scalars
RECURSIVE SameValue(_, _)
SameValue(a, b) ==
    /\ a.t = b.t
    /\ IF a.t = "obj"
       THEN /\ {a.v[i][1] : i \in 1..Len(a.v)} = {b.v[i][1] : i \in 1..Len(b.v)}
            /\ \A i \in 1..Len(a.v) :
                 SameValue(a.v[i][2], Unwrap(get(b, a.v[i][1])))
       ELSE IF a.t = "arr"
       THEN /\ Len(a.v) = Len(b.v)
            /\ \A i \in 1..Len(a.v) : SameValue(a.v[i], b.v[i])
       ELSE a.v = b.v

\* the targets of the string-valued "$ref" keys, at any depth
RECURSIVE RefTargets(_)
RefTargets(a) ==
    IF a.t = "obj"
    THEN UNION {(IF a.v[i][1] = S_REF /\ a.v[i][2].t = "str" THEN {a.v[i][2].v} ELSE {})
                \cup RefTargets(a.v[i][2]) : i \in 1..Len(a.v)}
    ELSE IF a.t = "arr" THEN UNION {RefTargets(a.v[i]) : i \in 1..Len(a.v)}
    ELSE {}

\* a target without its "#/definitions/" or "#/components/schemas/" prefix
StripPrefix(r) ==
    IF starts_with(r, S_DEFINITIONS) THEN SubSeq(r, Len(S_DEFINITIONS) + 1, Len(r))
    ELSE IF starts_with(r, S_COMPONENTS_SCHEMAS)
    THEN SubSeq(r, Len(S_COMPONENTS_SCHEMAS) + 1, Len(r))
    ELSE r

(***************************************************************************)
(* C15. Dialect detection classifies every document: a swagger value that  *)
(* starts with "2." selects the legacy dialect, an openapi value 3.0.x or   *)
(* 3.1.x the modern one, any other value of a present version field yields *)
(* the unsupported-version error, and only the absence of both fields      *)
(* yields the missing-field error.                                         *)
(***************************************************************************)
Legacy(v) == v.t = "str" /\ starts_with(v.v, <<"2", ".">>)
Modern(v) == v.t = "str" /\ (starts_with(v.v, <<"3", ".", "0", ".">>)
                             \/ starts_with(v.v, <<"3", ".", "1", ".">>))

C15_AsClaimed ==
    Called("detect_version") =>
        LET swagger == get(call.a, S_SWAGGER)
            openapi == get(call.a, S_OPENAPI)
        IN /\ (call.ra = Err("InvalidOpenApi") <=> ~IsSome(swagger) /\ ~IsSome(openapi))
           /\ (IsSome(swagger) /\ ~IsSome(openapi) =>
                  call.ra = IF Legacy(Unwrap(swagger)) THEN Ok("Swagger2")
                            ELSE Err("UnsupportedVersion"))
           /\ (~IsSome(swagger) /\ IsSome(openapi) =>
                  IF Modern(Unwrap(openapi)) THEN call.ra \in {Ok("OpenApi30"), Ok("OpenApi31")}
                  ELSE call.ra = Err("UnsupportedVersion"))

(***************************************************************************)
(* C16. extract_refs_and_hash returns the same hash for every permutation  *)
(* of the keys of every object nested anywhere inside a JSON value: the    *)
(* order of an object's keys never influences the digest.                  *)
(***************************************************************************)
C16_KeyOrderNeverMatters ==
    Called("extract_refs_and_hash") /\ SameValue(call.a, call.b)
        => call.ra.hash = call.rb.hash

\* the keys are permuted in the outer object and in an object inside its
\* array, and the Map keeps the order of the text
C16_Witness ==
    /\ Called("extract_refs_and_hash")
    /\ call.order = "insertion"
    /\ call.a \in Deep /\ call.b \in Deep
    /\ SameValue(call.a, call.b)
    /\ keys(call.a) # keys(call.b)
    /\ LET inner(d) == Unwrap(get(d, <<"a">>)).v[1]
       IN inner(call.a) # inner(call.b)
    /\ call.ra.hash = call.rb.hash

(***************************************************************************)
(* C17. The whole-document hash (spec_hash, compute_hash) follows the same *)
(* object and array rules as the per-unit digest: two documents that       *)
(* differ only in the order of object keys get the same spec_hash.         *)
(***************************************************************************)
C17_AsClaimed ==
    Called("compute_hash") =>
        /\ (SameValue(call.a, call.b) => call.ra = call.rb)
        /\ (call.ra = call.rb
               <=> extract_refs_and_hash(from_str(call.a, call.order)).hash
                   = extract_refs_and_hash(from_str(call.b, call.order)).hash)

(***************************************************************************)
(* C18. The bytes that collect_refs_and_hash feeds to the hasher differ    *)
(* for any two JSON values that differ in a scalar, in an object's key     *)
(* set or in the order of an array's elements, so that two such values     *)
(* never get the same digest from identical input: [1,2] and [12], or      *)
(* [1,11] and [11,1], are fed differently.                                 *)
(***************************************************************************)
C18_AsClaimed ==
    Called("extract_refs_and_hash") /\ ~SameValue(call.a, call.b)
        => call.ra.hash # call.rb.hash

(***************************************************************************)
(* C19. The reference list of extract_refs_and_hash contains the target of *)
(* every string-valued "$ref" key at any depth, with the "#/definitions/"  *)
(* or "#/components/schemas/" prefix stripped, nothing else, no            *)
(* duplicates, in ascending lexicographic order.                           *)
(***************************************************************************)
C19_AsClaimed ==
    Called("extract_refs_and_hash") =>
        /\ {call.ra.refs[i] : i \in 1..Len(call.ra.refs)}
              = {StripPrefix(r) : r \in RefTargets(call.a)}
        /\ \A i \in 1..(Len(call.ra.refs) - 1) : str_lt(call.ra.refs[i], call.ra.refs[i + 1])

(***************************************************************************)
(* C20. Every record that the cold path of parse_with_cache persists is    *)
(* self-consistent for the source it was written for: its schema_version   *)
(* is CACHE_SCHEMA_VERSION, its source is the requested source, its        *)
(* parsed_spec is present and has the record's spec_hash, and for a local  *)
(* source the mtime validator is set; hence the next parse_with_cache of   *)
(* the same unchanged source within the TTL is a cache hit.                *)
(***************************************************************************)
SelfConsistent(rec, source) ==
    /\ rec.schema_version = CACHE_SCHEMA_VERSION
    /\ rec.source = source
    /\ IsSome(rec.parsed_spec)
    /\ Unwrap(rec.parsed_spec).spec_hash = rec.spec_hash
    /\ (source \in LocalPaths => IsSome(rec.local_cache.mtime))

\* the cold path ran and its record reached the cache file
Persisted == Parsed /\ last.path = "cold" /\ last.save = "ok"

\* the call is for a local file and finds the record a cold path wrote for it;
\* the TTL has not elapsed and the file was last written before the record was
\* (for a URL, whether it is unchanged is what the HEAD request of C8 tells)
NextOfUnchanged ==
    /\ Parsed
    /\ last.source \in LocalPaths
    /\ PreReadable
    /\ PreRec.schema_version = CACHE_SCHEMA_VERSION
    /\ PreRec.source = last.source
    /\ IsSome(PreRec.parsed_spec)
    /\ PreEmbedded.spec_hash = PreRec.spec_hash
    /\ ~TtlElapsed(PreRec, now)
    /\ files[last.source].exists
    /\ files[last.source].mtime < Unwrap(PreRec.last_fetch.ticks)

C20_AsClaimed ==
    /\ (Persisted => cacheFile.kind = "json" /\ SelfConsistent(PostRec, last.source))
    /\ (NextOfUnchanged => last.path = "hit")

(***************************************************************************)
(* The dependency graph (spec.md, 4.3): build(spec) -> Graph and           *)
(* query(graph, anchor, direction) -> set of node ids.  Nodes are the      *)
(* schema names and the endpoint keys; there is an edge schema -> schema   *)
(* for every entry of a schema's refs and endpoint -> schema for every     *)
(* entry of an endpoint's schema_refs.  The traversal is modelled step by  *)
(* step: the model in `store`, the query in `call`, the traversal in       *)
(* `procs`.                                                                *)
(***************************************************************************)
\* most entries in a refs or schema_refs list
MaxRefs == 2

SchemaNames == {"A", "B", "C"}
EndpointKeys == {"E"}
Nodes == SchemaNames \cup EndpointKeys
Directions == {"upstream", "downstream", "both"}

RefLists == {r \in SUBSET SchemaNames : Cardinality(r) <= MaxRefs}
\* the models: the refs of every schema and the schema_refs of every endpoint
GraphSpecs ==
    {[schemas |-> s, endpoints |-> e] :
        s \in [SchemaNames -> RefLists], e \in [EndpointKeys -> RefLists]}

\* build(spec): the edges <<from, to>>
build(spec) ==
    {e \in SchemaNames \X SchemaNames : e[2] \in spec.schemas[e[1]]}
    \cup {e \in EndpointKeys \X SchemaNames : e[2] \in spec.endpoints[e[1]]}

\* what a node depends on, and what depends on it
successors(graph, n) == {e[2] : e \in {x \in graph : x[1] = n}}
predecessors(graph, n) == {e[1] : e \in {x \in graph : x[2] = n}}

\* as neighbours, but the edges are followed forward in both directions
neighbours_forward(graph, n, dir) == successors(graph, n)
\* the nodes one edge away in the direction of the traversal
neighbours(graph, n, dir) ==
    IF dir = "upstream" THEN successors(graph, n) ELSE predecessors(graph, n)

\* as to_visit, but the nodes found are not followed
to_visit_none(found, visited) == {}
\* the nodes found that the traversal has still to expand
to_visit(found, visited) == found \ visited

\* the closures that a direction asks for
walks(direction) ==
    IF direction = "both" THEN <<"upstream", "downstream">> ELSE <<direction>>

NoVisits == [d \in {"upstream", "downstream"} |-> [n \in Nodes |-> 0]]
Building == [pc |-> "build", graph |-> {}, dirs |-> <<>>, frontier |-> {}, visited |-> {},
             found |-> {}, visits |-> NoVisits]

InitGraph ==
    /\ store \in GraphSpecs
    /\ \E anchor \in Nodes, direction \in Directions :
         call = [anchor |-> anchor, direction |-> direction, done |-> FALSE, result |-> {}]
    /\ procs = Building
    /\ now = 0 /\ files = Unused /\ cacheFile = Unused /\ tmpFile = Unused /\ last = Unused

\* build(spec)
Build ==
    /\ procs.pc = "build"
    /\ procs' = [procs EXCEPT !.pc = "query", !.graph = build(store)]
    /\ UNCHANGED <<store, call, cacheVars>>

\* query(graph, anchor, direction) starts its first closure at the anchor
Query ==
    /\ procs.pc = "query"
    /\ procs' = [procs EXCEPT !.pc = "walk", !.dirs = walks(call.direction),
                              !.frontier = {call.anchor}, !.visited = {}]
    /\ UNCHANGED <<store, call, cacheVars>>

\* one node of the frontier is expanded: it is marked visited and the nodes
\* one edge away are found
Visit ==
    /\ procs.pc = "walk" /\ procs.frontier # {}
    /\ LET dir == Head(procs.dirs)
           n == CHOOSE x \in procs.frontier : TRUE
           visited == procs.visited \cup {n}
           next == neighbours(procs.graph, n, dir)
       IN procs' = [procs EXCEPT !.visited = visited,
                                 !.found = @ \cup next,
                                 !.frontier = (@ \ {n}) \cup to_visit(next, visited),
                                 !.visits[dir][n] = @ + 1]
    /\ UNCHANGED <<store, call, cacheVars>>

\* the first closure of "both" is complete: the second starts at the anchor
NextWalk ==
    /\ procs.pc = "walk" /\ procs.frontier = {} /\ Len(procs.dirs) > 1
    /\ procs' = [procs EXCEPT !.dirs = Tail(@), !.frontier = {call.anchor}, !.visited = {}]
    /\ UNCHANGED <<store, call, cacheVars>>

\* the query returns: for "both", the union of the closures minus the anchor
Return ==
    /\ procs.pc = "walk" /\ procs.frontier = {} /\ Len(procs.dirs) = 1
    /\ procs' = [procs EXCEPT !.pc = "done"]
    /\ call' = [call EXCEPT !.done = TRUE,
                            !.result = IF call.direction = "both"
                                       THEN procs.found \ {call.anchor}
                                       ELSE procs.found]
    /\ UNCHANGED <<store, cacheVars>>

NextGraph == Build \/ Query \/ Visit \/ NextWalk \/ Return

SpecGraph == InitGraph /\ [][NextGraph]_vars
\* the traversal is a loop of one thread: a step that can be taken is taken
SpecGraphLive == SpecGraph /\ WF_vars(NextGraph)

(***************************************************************************)
(* Vocabulary of the properties of the graph, stated on the model in       *)
(* `store` without the operators of the traversal.                         *)
(***************************************************************************)
\* n lists m in its refs (a schema) or in its schema_refs (an endpoint)
DependsOn(n, m) ==
    \/ n \in SchemaNames /\ m \in store.schemas[n]
    \/ n \in EndpointKeys /\ m \in store.endpoints[n]

\* the least set that holds S and every node depending on one of its nodes
RECURSIVE DependentsOf(_)
DependentsOf(S) ==
    LET more == S \cup {n \in Nodes : \E m \in S : DependsOn(n, m)}
    IN IF more = S THEN S ELSE DependentsOf(more)
\* the least set that holds S and every node that one of its nodes depends on
RECURSIVE DependenciesOf(_)
DependenciesOf(S) ==
    LET more == S \cup {m \in Nodes : \E n \in S : DependsOn(n, m)}
    IN IF more = S THEN S ELSE DependenciesOf(more)

\* the nodes from which a is reachable, and the nodes reachable from a, along
\* one edge or more
Downstream(a) == DependentsOf({n \in Nodes : DependsOn(n, a)})
Upstream(a) == DependenciesOf({m \in Nodes : DependsOn(a, m)})

(***************************************************************************)
(* C21. The downstream query of a schema A returns every node that         *)
(* transitively depends on A: if schema B lists A in its refs and endpoint *)
(* E lists B in its schema_refs, downstream(A) contains B and E, and in    *)
(* general every node from which A is reachable.                           *)
(***************************************************************************)
C21_DownstreamTransitive ==
    call.done /\ call.direction = "downstream" /\ call.anchor \in SchemaNames =>
        /\ \A b \in SchemaNames, e \in EndpointKeys :
              call.anchor \in store.schemas[b] /\ b \in store.endpoints[e]
                  => {b, e} \subseteq call.result
        /\ Downstream(call.anchor) \subseteq call.result

\* E depends on A only through B
C21_Witness ==
    /\ call.done /\ call.direction = "downstream" /\ call.anchor = "A"
    /\ store.schemas["B"] = {"A"}
    /\ store.endpoints["E"] = {"B"}
    /\ store.schemas["A"] = {} /\ store.schemas["C"] = {}
    /\ call.result = {"B", "E"}

(***************************************************************************)
(* C22. A query (upstream, downstream or both) terminates on every graph,  *)
(* also when schemas reference each other circularly or a schema           *)
(* references itself; each closure visits a node at most once; and the     *)
(* query returns exactly the nodes reachable from the anchor in the        *)
(* requested direction (for both: the union of the two closures minus the  *)
(* anchor).                                                                *)
(***************************************************************************)
Reachable(a, direction) ==
    IF direction = "upstream" THEN Upstream(a)
    ELSE IF direction = "downstream" THEN Downstream(a)
    ELSE (Upstream(a) \cup Downstream(a)) \ {a}

MaxCalls == 2
\* requests of one kind that a call may send before the model stops it
MaxRequests == 2

CallSources == {LocalPath, RemoteUrl}

Idle(n) ==
    [pc |-> "idle", n |-> n, source |-> <<>>, t0 |-> 0, cache |-> None, fetched |-> None,
     new |-> None, result |-> Err("none"), path |-> "none",
     heads |-> 0, gets |-> 0, reads |-> 0, read_mtime |-> None, stat_content |-> None]

InitCall ==
    /\ now = 0
    /\ files = [p \in LocalPaths |-> SpecFile("d1", 0)]
    /\ cacheFile = NoFile
    /\ tmpFile = NoFile
    /\ procs = Idle(0)
    /\ last = Unused /\ store = Unused /\ call = Unused

\* tools/parse.rs:101-106: parse_with_cache(source, None) is entered
Enter(source) ==
    /\ procs.pc = "idle" /\ procs.n < MaxCalls
    /\ procs' = [Idle(procs.n + 1) EXCEPT !.pc = "load", !.source = source]
    /\ UNCHANGED <<now, files, cacheFile, tmpFile, last, store, call>>

\* cache.rs:167-171: the record is loaded, of this schema version and source
reaches_check(loaded, source) ==
    /\ loaded.ok
    /\ schema_version_compatible(Unwrap(loaded.val))
    /\ source_matches(Unwrap(loaded.val), source)

\* cache.rs:167-171, load_cache and the first two stages of the cascade
LoadCache ==
    /\ procs.pc = "load"
    /\ LET loaded == load_cache(cacheFile)
       IN procs' = IF reaches_check(loaded, procs.source)
                   THEN [procs EXCEPT !.pc = "check", !.cache = loaded.val]
                   ELSE [procs EXCEPT !.pc = "fetch"]
    /\ UNCHANGED <<now, files, cacheFile, tmpFile, last, store, call>>

\* cache.rs:173-177 with check_local_cache (cache.rs:314-333) or the start of
\* check_remote_cache (cache.rs:271-285): the TTL, then the stat or the HEAD
\* request
CheckCache ==
    /\ procs.pc = "check"
    /\ IF starts_with(procs.source, HTTP)
       THEN IF is_cache_expired(Unwrap(procs.cache), now)
            THEN procs' = [procs EXCEPT !.pc = "fetch"]
            ELSE \/ procs' = [procs EXCEPT !.pc = "fetch"]
                 \/ /\ procs.heads < MaxRequests
                    /\ procs' = [procs EXCEPT !.pc = "head", !.t0 = now, !.heads = @ + 1]
       ELSE procs' = [procs EXCEPT
                !.pc = IF check_local_cache(procs.source, Unwrap(procs.cache), files, now).valid
                       THEN "use" ELSE "fetch",
                !.stat_content = IF files[procs.source].exists
                                 THEN Some(files[procs.source].content) ELSE None]
    /\ UNCHANGED <<now, files, cacheFile, tmpFile, last, store, call>>

\* cache.rs:285-310: the HEAD request is answered, fails or times out
HeadDone ==
    /\ procs.pc = "head"
    /\ \E head \in HeadOutcomes(procs.source) \ {BuildFail} :
         procs' = [procs EXCEPT
             !.pc = IF check_remote_cache(procs.source, Unwrap(procs.cache), procs.t0, head).valid
                    THEN "use" ELSE "fetch"]
    /\ UNCHANGED <<now, files, cacheFile, tmpFile, last, store, call>>

\* cache.rs:179-189: the record is valid; its embedded model is returned if
\* it is present and intact
UseCache ==
    /\ procs.pc = "use"
    /\ LET found == usable_parsed_spec(Unwrap(procs.cache))
       IN procs' = IF IsSome(found)
                   THEN [procs EXCEPT !.pc = "done", !.path = "hit",
                                      !.result = Ok(Unwrap(found))]
                   ELSE [procs EXCEPT !.pc = "fetch"]
    /\ UNCHANGED <<now, files, cacheFile, tmpFile, last, store, call>>

\* as next_after_fetch, but a failed fetch is tried again
next_after_fetch_retry(res) == IF res.ok THEN "create" ELSE "fetch"
\* cache.rs:194, `self.fetch_and_parse(source).await?`
next_after_fetch(res) == IF res.ok THEN "create" ELSE "done"

Fetched(r) ==
    [procs EXCEPT !.pc = next_after_fetch(r.res), !.path = "cold",
                  !.fetched = IF r.res.ok THEN r.res.val ELSE None,
                  !.result = IF r.res.ok THEN @ ELSE Err(Unwrap(r.res.err))]

\* cache.rs:208-219 and 248-254, fetch_and_parse: the GET request is sent, or
\* the client cannot be built, or the local file is read and normalized
Fetch ==
    /\ procs.pc = "fetch"
    /\ IF starts_with(procs.source, HTTP_SCHEME) \/ starts_with(procs.source, HTTPS_SCHEME)
       THEN /\ procs.gets < MaxRequests
            /\ \/ procs' = [Fetched(fetch_and_parse(procs.source, files, BuildFail, 1))
                               EXCEPT !.gets = @ + 1]
               \/ procs' = [procs EXCEPT !.pc = "get", !.gets = @ + 1]
       ELSE /\ procs.reads < MaxRequests
            /\ \E tags \in (IF read_to_string(procs.source, files).ok
                            THEN TagOrders(Unwrap(read_to_string(procs.source, files).val))
                            ELSE {1}) :
                 procs' = [Fetched(fetch_and_parse(procs.source, files, NoRequest, tags))
                              EXCEPT !.reads = @ + 1,
                                     !.read_mtime = IF files[procs.source].exists
                                                    THEN Some(files[procs.source].mtime)
                                                    ELSE None]
    /\ UNCHANGED <<now, files, cacheFile, tmpFile, last, store, call>>

\* cache.rs:214-246: the GET request is answered, fails or times out, and the
\* body is normalized
GetDone ==
    /\ procs.pc = "get"
    /\ \E resp \in GetOutcomes :
       \E tags \in (IF resp.kind = "resp" THEN TagOrders(resp.content) ELSE {1}) :
           procs' = Fetched(fetch_and_parse(procs.source, files, resp, tags))
    /\ UNCHANGED <<now, files, cacheFile, tmpFile, last, store, call>>

\* cache.rs:197, create_cache: the record is built, with the stat of a local
\* file
CreateCache ==
    /\ procs.pc = "create"
    /\ procs' = [procs EXCEPT
                    !.pc = "save",
                    !.new = Some(create_cache(Unwrap(procs.fetched)[1], procs.source, None,
                                              Some(Unwrap(procs.fetched)[2]), files, now))]
    /\ UNCHANGED <<now, files, cacheFile, tmpFile, last, store, call>>

\* cache.rs:198-200, save_cache and the return
SaveCache ==
    /\ procs.pc = "save"
    /\ \E disk \in DiskOutcomes :
       \E saved \in {save_cache(Unwrap(procs.new), cacheFile, tmpFile, disk)} :
           /\ cacheFile' = saved.file
           /\ tmpFile' = saved.tmp
           /\ procs' = [procs EXCEPT !.pc = "done",
                                     !.result = after_save(Unwrap(procs.fetched)[1], saved),
                                     !.new = IF saved.res.ok THEN @ ELSE None]
    /\ UNCHANGED <<now, files, last, store, call>>

\* the caller takes the answer
Leave ==
    /\ procs.pc = "done"
    /\ procs' = Idle(procs.n)
    /\ UNCHANGED <<now, files, cacheFile, tmpFile, last, store, call>>

\* the clock advances
Clock ==
    /\ now < MaxTime * TicksPerSec
    /\ now' = now + 1
    /\ UNCHANGED <<files, cacheFile, tmpFile, procs, last, store, call>>

\* another program rewrites the spec file
Rewrite(p, c) ==
    /\ files[p] # SpecFile(c, now)
    /\ files' = [files EXCEPT ![p] = SpecFile(c, now)]
    /\ UNCHANGED <<now, cacheFile, tmpFile, procs, last, store, call>>

\* the steps of the call
CallStep ==
    \/ LoadCache \/ CheckCache \/ HeadDone \/ UseCache \/ Fetch \/ GetDone
    \/ CreateCache \/ SaveCache

NextCall ==
    \/ \E source \in CallSources : Enter(source)
    \/ CallStep
    \/ Leave
    \/ Clock
    \/ \E p \in WritablePaths, c \in Docs : Rewrite(p, c)

SpecCall == InitCall /\ [][NextCall]_vars
\* the thread of the call keeps running, and a request that was sent ends
SpecCallLive == SpecCall /\ WF_vars(CallStep)

(***************************************************************************)
(* C23. Every parse_with_cache call eventually returns a model or an       *)
(* error, provided each network request completes or reaches its timeout:  *)
(* the call issues at most one HEAD request and at most one GET or file    *)
(* read, and never retries or loops.                                       *)
(***************************************************************************)
C23_CallReturns ==
    /\ [](procs.pc # "idle" => <>(procs.pc = "done"))
    /\ [](procs.pc = "done" => procs.result # Err("none"))
    /\ [](procs.heads <= 1 /\ procs.gets + procs.reads <= 1)

\* the HEAD request found the record outdated and the GET request failed
C23_Witness ==
    /\ procs.pc = "done"
    /\ procs.source = RemoteUrl
    /\ procs.heads = 1 /\ procs.gets = 1
    /\ procs.result = Err("ConnectionFailed")

(***************************************************************************)
(* C27. For a local source, the mtime stored in a record written by the    *)
(* cold path is the modification time of the very file contents from which *)
(* the embedded model was normalized, also when another process rewrites   *)
(* the file between the read in fetch_and_parse and the stat in            *)
(* create_cache; consequently a later cache hit never returns a model that *)
(* differs from what normalizing the file's current contents would give.   *)
(***************************************************************************)
\* the call is over, for a local file
ColdSaved ==
    procs.pc = "done" /\ procs.path = "cold" /\ IsSome(procs.new)
        /\ procs.source \in LocalPaths
LocalHit == procs.pc = "done" /\ procs.path = "hit" /\ procs.source \in LocalPaths

C27_AsClaimed ==
    /\ (ColdSaved =>
           /\ IsSome(procs.read_mtime)
           /\ Unwrap(procs.new).local_cache.mtime
                 = Some(to_rfc3339(Unwrap(procs.read_mtime))))
    /\ (LocalHit =>
           /\ IsSome(procs.stat_content)
           /\ Unwrap(procs.result.val).doc = Unwrap(procs.stat_content))

(***************************************************************************)
(* The normalizer's functions on one schema node and on one operation      *)
(* (parser.rs:743-808, 826-914), applied to bounded documents.             *)
(***************************************************************************)
S_TYPE == <<"t", "y", "p", "e">>
S_PROPERTIES == <<"p", "r", "o", "p", "e", "r", "t", "i", "e", "s">>
S_REQUIRED == <<"r", "e", "q", "u", "i", "r", "e", "d">>
S_ONE_OF == <<"o", "n", "e", "O", "f">>
S_ANY_OF == <<"a", "n", "y", "O", "f">>
S_ALL_OF == <<"a", "l", "l", "O", "f">>
S_ITEMS == <<"i", "t", "e", "m", "s">>
S_FORMAT == <<"f", "o", "r", "m", "a", "t">>
S_ENUM == <<"e", "n", "u", "m">>
S_STRING == <<"s", "t", "r", "i", "n", "g">>
S_NUMBER == <<"n", "u", "m", "b", "e", "r">>
S_INTEGER == <<"i", "n", "t", "e", "g", "e", "r">>
S_BOOLEAN == <<"b", "o", "o", "l", "e", "a", "n">>
S_ARRAY == <<"a", "r", "r", "a", "y">>
S_OBJECT == <<"o", "b", "j", "e", "c", "t">>

\* Value::as_array, Value::as_object, Value::as_bool
as_array(value) == IF value.t = "arr" THEN Some(value.v) ELSE None
as_object(value) == IF value.t = "obj" THEN Some(value) ELSE None
as_bool(value) == IF value.t = "bool" THEN Some(value.v) ELSE None

\* value.get(key).and_then(|v| v.as_str()) and its siblings
get_str(value, key) == IF IsSome(get(value, key)) THEN as_str(Unwrap(get(value, key))) ELSE None
get_array(value, key) ==
    IF IsSome(get(value, key)) THEN as_array(Unwrap(get(value, key))) ELSE None
get_object(value, key) ==
    IF IsSome(get(value, key)) THEN as_object(Unwrap(get(value, key))) ELSE None

\* arr.iter().filter_map(|v| v.as_str().map(String::from)).collect()
RECURSIVE strings_of(_)
strings_of(arr) ==
    IF arr = <<>> THEN <<>>
    ELSE (IF IsSome(as_str(Head(arr))) THEN <<Unwrap(as_str(Head(arr)))>> ELSE <<>>)
         \o strings_of(Tail(arr))

Unknown == [kind |-> "Unknown"]

\* parser.rs:887, `Some("object") | None if schema.get("properties").is_some()`:
\* the guard belongs to both alternatives of the pattern
is_object_schema(ty, schema) ==
    (ty = Some(S_OBJECT) \/ ty = None) /\ IsSome(get(schema, S_PROPERTIES))

\* OpenApiParser::parse_schema_type; a properties map is the set of its
\* <<name, type>> pairs
RECURSIVE parse_schema_type(_)
parse_schema_type(schema) ==
    IF IsSome(get_str(schema, S_REF))
    THEN [kind |-> "Ref",
          reference |-> replace(replace(Unwrap(get_str(schema, S_REF)), S_DEFINITIONS),
                                S_COMPONENTS_SCHEMAS)]
    ELSE IF IsSome(get_array(schema, S_ONE_OF))
    THEN LET one_of == Unwrap(get_array(schema, S_ONE_OF))
         IN [kind |-> "OneOf",
             variants |-> [i \in 1..Len(one_of) |-> parse_schema_type(one_of[i])]]
    ELSE IF IsSome(get_array(schema, S_ANY_OF))
    THEN LET any_of == Unwrap(get_array(schema, S_ANY_OF))
         IN [kind |-> "AnyOf",
             variants |-> [i \in 1..Len(any_of) |-> parse_schema_type(any_of[i])]]
    ELSE IF IsSome(get_array(schema, S_ALL_OF))
    THEN LET all_of == Unwrap(get_array(schema, S_ALL_OF))
         IN [kind |-> "AllOf",
             variants |-> [i \in 1..Len(all_of) |-> parse_schema_type(all_of[i])]]
    ELSE LET ty == get_str(schema, S_TYPE)
             format == get_str(schema, S_FORMAT)
         IN IF ty = Some(S_STRING)
            THEN [kind |-> "String", format |-> format,
                  enum_values |-> IF IsSome(get_array(schema, S_ENUM))
                                  THEN Some(strings_of(Unwrap(get_array(schema, S_ENUM))))
                                  ELSE None]
            ELSE IF ty = Some(S_NUMBER) THEN [kind |-> "Number", format |-> format]
            ELSE IF ty = Some(S_INTEGER) THEN [kind |-> "Integer", format |-> format]
            ELSE IF ty = Some(S_BOOLEAN) THEN [kind |-> "Boolean"]
            ELSE IF ty = Some(S_ARRAY)
            THEN [kind |-> "Array",
                  items |-> IF IsSome(get(schema, S_ITEMS))
                            THEN parse_schema_type(Unwrap(get(schema, S_ITEMS)))
                            ELSE Unknown]
            ELSE IF is_object_schema(ty, schema)
            THEN LET obj == get_object(schema, S_PROPERTIES)
                     required == get_array(schema, S_REQUIRED)
                 IN [kind |-> "Object",
                     properties |->
                         IF IsSome(obj)
                         THEN {<<Unwrap(obj).v[i][1], parse_schema_type(Unwrap(obj).v[i][2])>> :
                                  i \in 1..Len(Unwrap(obj).v)}
                         ELSE {},
                     required |-> IF IsSome(required) THEN strings_of(Unwrap(required))
                                  ELSE <<>>]
            ELSE Unknown

S_REQUEST_BODY == <<"r", "e", "q", "u", "e", "s", "t", "B", "o", "d", "y">>
S_CONTENT == <<"c", "o", "n", "t", "e", "n", "t">>
S_SCHEMA == <<"s", "c", "h", "e", "m", "a">>
S_RESPONSES == <<"r", "e", "s", "p", "o", "n", "s", "e", "s">>
S_DESCRIPTION == <<"d", "e", "s", "c", "r", "i", "p", "t", "i", "o", "n">>

\* parser.rs:749-755 and 780-786: content.values().next(), its schema, its
\* $ref as a string, without the "#/components/schemas/" text
first_schema_ref(content) ==
    IF content.v = <<>> THEN None
    ELSE LET c == content.v[1][2]
             schema == get(c, S_SCHEMA)
             r == IF IsSome(schema) THEN get_str(Unwrap(schema), S_REF) ELSE None
         IN IF IsSome(r) THEN Some(replace(Unwrap(r), S_COMPONENTS_SCHEMAS)) ELSE None

\* OpenApiParser::parse_openapi3_body
parse_openapi3_body(operation) ==
    LET body == get(operation, S_REQUEST_BODY)
        content == IF IsSome(body) THEN get_object(Unwrap(body), S_CONTENT) ELSE None
    IN IF ~IsSome(body) \/ ~IsSome(content) THEN None
       ELSE Some([required |-> IF IsSome(get(Unwrap(body), S_REQUIRED))
                                  /\ IsSome(as_bool(Unwrap(get(Unwrap(body), S_REQUIRED))))
                               THEN Unwrap(as_bool(Unwrap(get(Unwrap(body), S_REQUIRED))))
                               ELSE FALSE,
                  description |-> get_str(Unwrap(body), S_DESCRIPTION),
                  content_types |-> keys(Unwrap(content)),
                  schema_ref |-> first_schema_ref(Unwrap(content))])

\* OpenApiParser::parse_openapi3_responses; the HashMap is the set of its
\* responses, each with its status_code
parse_openapi3_responses(operation) ==
    LET resp_obj == get_object(operation, S_RESPONSES)
    IN IF ~IsSome(resp_obj) THEN {}
       ELSE {LET status == Unwrap(resp_obj).v[i][1]
                 resp == Unwrap(resp_obj).v[i][2]
                 content == get_object(resp, S_CONTENT)
             IN [status_code |-> status,
                 description |-> get_str(resp, S_DESCRIPTION),
                 content_types |-> IF IsSome(content) THEN keys(Unwrap(content)) ELSE <<>>,
                 schema_ref |-> IF IsSome(content) THEN first_schema_ref(Unwrap(content))
                                ELSE None] :
                i \in 1..Len(Unwrap(resp_obj).v)}

\* a member that may be left out of an object
Absent == [t |-> "absent", v |-> 0]
Opt(key, value) == IF value = Absent THEN <<>> ELSE <<<<key, value>>>>

PropId == <<"i", "d">>
PropOwner == <<"o">>
TypeValues == {Absent, JStr(S_OBJECT), JStr(S_STRING), JStr(S_ARRAY), JNum(1)}
PropertiesValues ==
    {Absent, JObj(<<>>), JNum(1),
     JObj(<<<<PropId, JObj(<<<<S_TYPE, JStr(S_STRING)>>>>)>>>>),
     JObj(<<<<PropOwner, JObj(<<<<S_TYPE, JStr(S_OBJECT)>>>>)>>,
            <<PropId, JObj(<<<<S_REF, JStr(RefPost)>>>>)>>>>)}
RequiredValues == {Absent, JArr(<<JStr(PropId)>>), JArr(<<JStr(PropId), JNum(1)>>)}
RefValues == {Absent, JStr(RefPost), JNum(1)}
OneOfValues == {Absent, JArr(<<JObj(<<<<S_TYPE, JStr(S_STRING)>>>>)>>)}
ItemsValues == {Absent, JObj(<<<<S_TYPE, JStr(S_OBJECT)>>>>)}

\* schema nodes: every combination of the members above
SchemaNodes ==
    {JObj(Opt(S_TYPE, ty) \o Opt(S_PROPERTIES, props) \o Opt(S_REQUIRED, req)
          \o Opt(S_REF, ref) \o Opt(S_ONE_OF, one_of) \o Opt(S_ITEMS, items)) :
        ty \in TypeValues, props \in PropertiesValues, req \in RequiredValues,
        ref \in RefValues, one_of \in OneOfValues, items \in ItemsValues}

\* content entries: without a schema, with an inline schema, with a $ref
RefUser3 == S_COMPONENTS_SCHEMAS \o <<"U">>
ContentEntries ==
    {JObj(<<>>), JObj(<<<<S_SCHEMA, JObj(<<<<S_TYPE, JStr(S_OBJECT)>>>>)>>>>)}
    \cup {JObj(<<<<S_SCHEMA, JObj(<<<<S_REF, JStr(r)>>>>)>>>>) : r \in {RefPost, RefUser3}}
MediaTypes == {<<"j", "s", "o", "n">>, <<"x", "m", "l">>}
MediaSeqs ==
    {ks \in SeqsUpTo(MediaTypes, Cardinality(MediaTypes)) :
        \A i, j \in 1..Len(ks) : i # j => ks[i] # ks[j]}
ContentMaps ==
    UNION {{JObj([i \in 1..Len(ks) |-> <<ks[i], es[i]>>]) : es \in [1..Len(ks) -> ContentEntries]} :
              ks \in MediaSeqs}
WithContent == {JObj(Opt(S_CONTENT, c)) : c \in ContentMaps \cup {Absent}}
Status200 == <<"2", "0", "0">>
\* operations: with and without a request body and a response
Operations ==
    {JObj(Opt(S_REQUEST_BODY, body)
          \o Opt(S_RESPONSES, IF resp = Absent THEN Absent ELSE JObj(<<<<Status200, resp>>>>))) :
        body \in WithContent \cup {Absent}, resp \in WithContent \cup {Absent}}

\* a call of one of the functions on a schema node or on an operation
InitNormalizer ==
    /\ \/ \E node \in SchemaNodes, order \in MapOrders :
            call = Pending("parse_schema_type", node, node, order)
       \/ \E fn \in {"parse_openapi3_body", "parse_openapi3_responses"},
             operation \in Operations, order \in MapOrders :
            call = Pending(fn, operation, operation, order)
    /\ now = 0 /\ files = Unused /\ cacheFile = Unused /\ tmpFile = Unused
    /\ last = Unused /\ store = Unused /\ procs = Unused

\* parser.rs:254, 570: parse_schema_type on a schema of the document
ParseSchemaType ==
    /\ call.fn = "parse_schema_type" /\ ~call.done
    /\ call' = [call EXCEPT !.done = TRUE,
                            !.ra = parse_schema_type(from_str(call.a, call.order)),
                            !.rb = parse_schema_type(from_str(call.b, call.order))]
    /\ UNCHANGED <<cacheVars, store, procs>>

\* parser.rs:668: parse_openapi3_body on an operation of the document
ParseOpenapi3Body ==
    /\ call.fn = "parse_openapi3_body" /\ ~call.done
    /\ call' = [call EXCEPT !.done = TRUE,
                            !.ra = parse_openapi3_body(from_str(call.a, call.order)),
                            !.rb = parse_openapi3_body(from_str(call.b, call.order))]
    /\ UNCHANGED <<cacheVars, store, procs>>

\* parser.rs:669: parse_openapi3_responses on an operation of the document
ParseOpenapi3Responses ==
    /\ call.fn = "parse_openapi3_responses" /\ ~call.done
    /\ call' = [call EXCEPT !.done = TRUE,
                            !.ra = parse_openapi3_responses(from_str(call.a, call.order)),
                            !.rb = parse_openapi3_responses(from_str(call.b, call.order))]
    /\ UNCHANGED <<cacheVars, store, procs>>

NextNormalizer ==
    \/ ParseSchemaType
    \/ ParseOpenapi3Body
    \/ ParseOpenapi3Responses

SpecNormalizer == InitNormalizer /\ [][NextNormalizer]_vars

(***************************************************************************)
(* C24. Schema type resolution yields the object type for every schema     *)
(* node without $ref, oneOf, anyOf or allOf that declares type "object",   *)
(* with or without a properties map, or that has a properties map and no   *)
(* type; the result carries the resolved properties map (empty when        *)
(* absent) and the required-name list.                                     *)
(***************************************************************************)
Has(value, key) == IsSome(get(value, key))
Plain(node) ==
    ~Has(node, S_REF) /\ ~Has(node, S_ONE_OF) /\ ~Has(node, S_ANY_OF) /\ ~Has(node, S_ALL_OF)
\* the names of the properties map, and the names listed as required
PropertyNames(node) ==
    IF Has(node, S_PROPERTIES) /\ Unwrap(get(node, S_PROPERTIES)).t = "obj"
    THEN {Unwrap(get(node, S_PROPERTIES)).v[i][1] :
             i \in 1..Len(Unwrap(get(node, S_PROPERTIES)).v)}
    ELSE {}
RequiredNames(node) ==
    IF Has(node, S_REQUIRED) /\ Unwrap(get(node, S_REQUIRED)).t = "arr"
    THEN {item.v : item \in {x \in {Unwrap(get(node, S_REQUIRED)).v[i] :
                                      i \in 1..Len(Unwrap(get(node, S_REQUIRED)).v)} :
                               x.t = "str"}}
    ELSE {}

C24_AsClaimed ==
    Called("parse_schema_type") /\ Plain(call.a)
      /\ (get(call.a, S_TYPE) = Some(JStr(S_OBJECT))
          \/ (Has(call.a, S_PROPERTIES) /\ ~Has(call.a, S_TYPE)))
        => /\ call.ra.kind = "Object"
           /\ {p[1] : p \in call.ra.properties} = PropertyNames(call.a)
           /\ {call.ra.required[i] : i \in 1..Len(call.ra.required)} = RequiredNames(call.a)

(***************************************************************************)
(* C25. For a modern-dialect request body or response with several         *)
(* content entries, the schema_ref of the normalized RequestBody or        *)
(* Response is the $ref target of the first content entry that carries a   *)
(* $ref, even when an earlier entry has an inline schema or no schema; it  *)
(* is absent only when no content entry carries a $ref.                    *)
(***************************************************************************)
\* the content entries, in the order in which the Map holds them, and the
\* targets of those whose schema carries a string-valued $ref
Entries(content, order) == from_str(content, order).v
EntryRef(entry) ==
    IF Has(entry[2], S_SCHEMA) /\ Has(Unwrap(get(entry[2], S_SCHEMA)), S_REF)
       /\ Unwrap(get(Unwrap(get(entry[2], S_SCHEMA)), S_REF)).t = "str"
    THEN Some(Unwrap(get(Unwrap(get(entry[2], S_SCHEMA)), S_REF)).v)
    ELSE None
FirstRef(content, order) ==
    LET es == Entries(content, order)
        bearing == {i \in 1..Len(es) : IsSome(EntryRef(es[i]))}
    IN IF bearing = {} THEN None
       ELSE Some(StripPrefix(Unwrap(EntryRef(es[CHOOSE i \in bearing :
                                                     \A j \in bearing : i <= j]))))

C25_AsClaimed ==
    /\ (Called("parse_openapi3_body") /\ IsSome(call.ra) =>
           Unwrap(call.ra).schema_ref
               = FirstRef(Unwrap(get(Unwrap(get(call.a, S_REQUEST_BODY)), S_CONTENT)),
                          call.order))
    /\ (Called("parse_openapi3_responses") =>
           \A r \in call.ra :
               LET resp == Unwrap(get(Unwrap(get(call.a, S_RESPONSES)), r.status_code))
               IN r.schema_ref = IF Has(resp, S_CONTENT)
                                 THEN FirstRef(Unwrap(get(resp, S_CONTENT)), call.order)
                                 ELSE None)

\* ---------------------------------------------------------------------------
\* Endpoint extraction: OpenApiParser::parse_openapi3_paths_parallel, one step
\* for the flattening, one for each unit of the parallel stage, one for the
\* merge into the keyed map, one for the count in the metadata
\* ---------------------------------------------------------------------------

S_PATHS == <<"p", "a", "t", "h", "s">>
S_SUMMARY == <<"s", "u", "m", "m", "a", "r", "y">>

\* char::to_lowercase on the letters that occur
lower(c) ==
    CASE c = "B" -> "b" [] c = "E" -> "e" [] c = "G" -> "g" [] c = "O" -> "o"
      [] c = "P" -> "p" [] c = "T" -> "t" [] c = "U" -> "u" [] OTHER -> c
\* str::to_lowercase
to_lowercase(s) == [i \in 1..Len(s) |-> lower(s[i])]

\* OpenApiParser::parse_http_method
parse_http_method(method) ==
    LET m == to_lowercase(method)
    IN IF m = <<"g", "e", "t">> THEN Some("Get")
       ELSE IF m = <<"p", "o", "s", "t">> THEN Some("Post")
       ELSE IF m = <<"p", "u", "t">> THEN Some("Put")
       ELSE IF m = <<"p", "a", "t", "c", "h">> THEN Some("Patch")
       ELSE IF m = <<"d", "e", "l", "e", "t", "e">> THEN Some("Delete")
       ELSE IF m = <<"h", "e", "a", "d">> THEN Some("Head")
       ELSE IF m = <<"o", "p", "t", "i", "o", "n", "s">> THEN Some("Options")
       ELSE IF m = <<"t", "r", "a", "c", "e">> THEN Some("Trace")
       ELSE None

\* OpenApiParser::parse_openapi3_operation_optimized: every field of the
\* endpoint comes from the path, the method and the operation alone
parse_openapi3_operation_optimized(path, method, operation) ==
    [path |-> path,
     method |-> method,
     summary |-> get_str(operation, S_SUMMARY),
     request_body |-> parse_openapi3_body(operation),
     responses |-> parse_openapi3_responses(operation),
     hash |-> extract_refs_and_hash(operation).hash,
     schema_refs |-> extract_refs_and_hash(operation).refs]

\* Endpoint::key: the method and the path of the endpoint
key(endpoint) == <<endpoint.method, endpoint.path>>

\* parser.rs:596-603, the units of one path item, as its Map iterates
RECURSIVE item_operations(_, _)
item_operations(path, members) ==
    IF members = <<>> THEN <<>>
    ELSE (IF IsSome(parse_http_method(Head(members)[1]))
          THEN <<[path |-> path, method |-> Head(members)[1], op |-> Head(members)[2]]>>
          ELSE <<>>)
         \o item_operations(path, Tail(members))

\* parser.rs:591-606, the flat list of (path, method, operation)
RECURSIVE path_operations(_)
path_operations(members) ==
    IF members = <<>> THEN <<>>
    ELSE (IF Head(members)[2].t = "obj"
          THEN item_operations(Head(members)[1], Head(members)[2].v)
          ELSE <<>>)
         \o path_operations(Tail(members))

\* parser.rs:589 and 626-628: without a paths object there is nothing to extract
operations_of(value) ==
    IF IsSome(get(value, S_PATHS)) /\ Unwrap(get(value, S_PATHS)).t = "obj"
    THEN path_operations(Unwrap(get(value, S_PATHS)).v)
    ELSE <<>>

\* parser.rs:611-618, what one unit of the parallel stage yields
parse_unit(unit) ==
    IF IsSome(parse_http_method(unit.method))
    THEN Some(parse_openapi3_operation_optimized(
                  unit.path, Unwrap(parse_http_method(unit.method)), unit.op))
    ELSE None

\* parser.rs:609-619, collect() of the parallel iterator: the results that
\* are there, in the order of the units
RECURSIVE collected(_)
collected(slots) ==
    IF slots = <<>> THEN <<>>
    ELSE (IF IsSome(Head(slots)) THEN <<Unwrap(Head(slots))>> ELSE <<>>)
         \o collected(Tail(slots))

\* parser.rs:621-625, collect() into the HashMap: a later endpoint replaces
\* an earlier one of the same key
RECURSIVE into_map(_)
into_map(parsed) ==
    IF parsed = <<>> THEN <<>>
    ELSE LET front == into_map(SubSeq(parsed, 1, Len(parsed) - 1))
             e == parsed[Len(parsed)]
         IN [k \in DOMAIN front \cup {key(e)} |-> IF k = key(e) THEN e ELSE front[k]]

PathA == <<"/", "a">>
PathB == <<"/", "b">>
MethodKeys == {<<"g", "e", "t">>, <<"G", "E", "T">>, <<"p", "o", "s", "t">>, <<"x">>}
OperationBodies ==
    {JObj(<<<<S_SUMMARY, JStr(<<"a">>)>>>>), JObj(<<<<S_SUMMARY, JStr(<<"b">>)>>>>)}
MethodSeqs ==
    {<<>>} \cup {<<k>> : k \in MethodKeys}
           \cup {<<k[1], k[2]>> : k \in {q \in MethodKeys \X MethodKeys : q[1] # q[2]}}
PathItems ==
    {JNull} \cup
    UNION {{JObj([i \in 1..Len(ks) |-> <<ks[i], b[i]>>]) : b \in [1..Len(ks) -> OperationBodies]}
           : ks \in MethodSeqs}
PathsDocs ==
    {JObj(<<>>), JObj(<<<<S_PATHS, JNull>>>>)}
    \cup {JObj(<<<<S_PATHS, JObj(<<<<PathA, a>>>>)>>>>) : a \in PathItems}
    \cup {JObj(<<<<S_PATHS, JObj(<<<<PathB, b>>, <<PathA, a>>>>)>>>>) :
              a \in PathItems, b \in PathItems}

NotExtracted == [pc |-> "start", operations |-> <<>>, endpoints |-> <<>>, endpoint_count |-> 0]

InitPaths ==
    /\ store \in {from_str(raw, order) : raw \in PathsDocs, order \in MapOrders}
    /\ procs = <<>>
    /\ call = NotExtracted
    /\ now = Unused /\ files = Unused /\ cacheFile = Unused /\ tmpFile = Unused
    /\ last = Unused

\* parser.rs:591-606
Flatten ==
    /\ call.pc = "start"
    /\ call' = [call EXCEPT !.pc = "parallel", !.operations = operations_of(store)]
    /\ procs' = [i \in 1..Len(operations_of(store)) |-> [ran |-> FALSE, out |-> None]]
    /\ UNCHANGED <<now, files, cacheFile, tmpFile, last, store>>

\* parser.rs:609-618, one unit on some worker, in any order
ParseUnit(i) ==
    /\ call.pc = "parallel"
    /\ ~procs[i].ran
    /\ procs' = [procs EXCEPT ![i] = [ran |-> TRUE, out |-> parse_unit(call.operations[i])]]
    /\ UNCHANGED <<now, files, cacheFile, tmpFile, last, store, call>>

\* parser.rs:619-625, once every unit has run
Merge ==
    /\ call.pc = "parallel"
    /\ \A i \in DOMAIN procs : procs[i].ran
    /\ call' = [call EXCEPT !.pc = "merged",
                            !.endpoints = into_map(collected([i \in DOMAIN procs |-> procs[i].out]))]
    /\ UNCHANGED <<now, files, cacheFile, tmpFile, last, store, procs>>

\* parser.rs:543, endpoint_count: endpoints.len()
Metadata ==
    /\ call.pc = "merged"
    /\ call' = [call EXCEPT !.pc = "done",
                            !.endpoint_count = Cardinality(DOMAIN call.endpoints)]
    /\ UNCHANGED <<now, files, cacheFile, tmpFile, last, store, procs>>

NextPaths ==
    \/ Flatten
    \/ \E i \in DOMAIN procs : ParseUnit(i)
    \/ Merge
    \/ Metadata

SpecPaths == InitPaths /\ [][NextPaths]_vars

\* the method names a path item can carry
HttpMethodNames ==
    {<<"g", "e", "t">>, <<"p", "o", "s", "t">>, <<"p", "u", "t">>, <<"p", "a", "t", "c", "h">>,
     <<"d", "e", "l", "e", "t", "e">>, <<"h", "e", "a", "d">>,
     <<"o", "p", "t", "i", "o", "n", "s">>, <<"t", "r", "a", "c", "e">>}

\* the path items of the document, and the members of each that spell a method
PathMembers(value) ==
    IF IsSome(get(value, S_PATHS)) /\ Unwrap(get(value, S_PATHS)).t = "obj"
    THEN {Unwrap(get(value, S_PATHS)).v[i] : i \in 1..Len(Unwrap(get(value, S_PATHS)).v)}
    ELSE {}
ExtractedOperations(value) ==
    UNION {IF pm[2].t = "obj"
           THEN {<<pm[1], pm[2].v[i][1]>> :
                    i \in {j \in 1..Len(pm[2].v) : to_lowercase(pm[2].v[j][1]) \in HttpMethodNames}}
           ELSE {}
           : pm \in PathMembers(value)}

\* the units parsed one after the other, in the order of the list
Sequentially(value) ==
    into_map(collected([i \in 1..Len(operations_of(value)) |-> parse_unit(operations_of(value)[i])]))

\* C26: whatever the order in which the units ran, the endpoints are those of
\* the sequential run, the map has one entry for each method that a path item
\* spells (also when it spells one in two letter cases), and endpoint_count is
\* the number of the extracted operations
C26_AsClaimed ==
    call.pc = "done" =>
        /\ call.endpoints = Sequentially(store)
        /\ Cardinality(DOMAIN call.endpoints) = Cardinality(ExtractedOperations(store))
        /\ call.endpoint_count = Cardinality(ExtractedOperations(store))

\* ---------------------------------------------------------------------------
\* The classification of the source, the frame of a failed fetch
\* ---------------------------------------------------------------------------

\* the source is read as a local file
ReadAsFile(source) == source \in LocalPaths

\* C28: within one call the freshness check, the validators of the new record
\* and the fetch agree on whether the source is a file or a URL: a source read
\* as a file is never sent a HEAD request, a record of it that is found valid
\* was compared with the file's mtime, and the record saved for it carries an
\* mtime, also when its name begins with "http"; a URL is never stat'ed and
\* its record carries no mtime
C28_AsClaimed ==
    Parsed =>
        /\ (ReadAsFile(last.source) =>
               /\ ~last.head_sent
               /\ (last.checked /\ last.valid => last.stat)
               /\ (last.io # "none" => last.io = "read")
               /\ (last.save = "ok" => IsSome(PostRec.local_cache.mtime)))
        /\ (~ReadAsFile(last.source) =>
               /\ ~last.stat
               /\ (last.io # "none" => last.io = "get")
               /\ (last.save = "ok" => ~IsSome(PostRec.local_cache.mtime)))

\* the error the failure of the cold fetch-and-normalize step is reported with
FetchError ==
    IF last.source \in LocalPaths /\ ~files[last.source].exists THEN "ReadError"
    ELSE IF last.source \notin LocalPaths /\ last.get.kind \in {"buildfail", "neterr"}
    THEN "ConnectionFailed"
    ELSE IF last.source \notin LocalPaths /\ last.get.kind = "status" THEN "HttpError"
    ELSE "InvalidJson"

\* C29: a call whose cold fetch-and-normalize step fails returns that error and
\* leaves the cache file as it was, and so does a hit; hence a call changes the
\* cache file only by saving the record of a successful cold fetch, whose
\* last_fetch is the time of that fetch and whose embedded model is the one
\* fetched
C29_FailedFetchKeepsCache ==
    Parsed =>
        /\ (last.path = "cold" /\ FetchFails =>
               /\ last.result = Err(FetchError)
               /\ last.save = "none"
               /\ cacheFile = last.pre)
        /\ (last.path = "hit" => last.save = "none" /\ cacheFile = last.pre)
        /\ (cacheFile # last.pre =>
               /\ last.path = "cold" /\ last.result.ok /\ last.save = "ok"
               /\ cacheFile.kind = "json"
               /\ PostRec.last_fetch = to_rfc3339(now)
               /\ PostRec.parsed_spec = Some(Returned))

\* a good record of an older fetch of d2 is on disk, its TTL has elapsed, and
\* the GET of the cold path fails: the record is still there, with its
\* last_fetch
C29_Witness ==
    /\ Parsed /\ last.path = "cold" /\ FetchFails
    /\ last.source = RemoteUrl /\ last.get.kind = "neterr"
    /\ PreReadable /\ PreRec.source = RemoteUrl /\ TtlElapsed(PreRec, now)
    /\ IsSome(PreRec.parsed_spec) /\ PreEmbedded.doc = "d2"
    /\ cacheFile = last.pre
    /\ PostRec.last_fetch # to_rfc3339(now)

\* ---------------------------------------------------------------------------
\* CacheManager::is_cache_expired as a function of the record and the clock
\* ---------------------------------------------------------------------------

\* the TTLs tried: the ends of the u64 range, both sides of the sign bit, and
\* the default
TtlValues ==
    {0, 1, DEFAULT_TTL_SECONDS, 2 ^ (IntBits - 1) - 1, 2 ^ (IntBits - 1), 2 ^ IntBits - 1}
Instants == 0..(MaxTime * TicksPerSec)
ExpiryRecords ==
    [last_fetch : {to_rfc3339(t) : t \in Instants} \cup {NotATimestamp},
     ttl_seconds : TtlValues]

InitExpiry ==
    /\ store \in ExpiryRecords
    /\ now \in Instants
    /\ call = [fn |-> "none", done |-> FALSE, result |-> FALSE]
    /\ files = Unused /\ cacheFile = Unused /\ tmpFile = Unused /\ last = Unused
    /\ procs = Unused

\* cache.rs:273 and 316, the record's expiry is asked
IsCacheExpired ==
    /\ ~call.done
    /\ call' = [fn |-> "is_cache_expired", done |-> TRUE,
                result |-> is_cache_expired(store, now)]
    /\ UNCHANGED <<now, files, cacheFile, tmpFile, last, store, procs>>

NextExpiry == IsCacheExpired

SpecExpiry == InitExpiry /\ [][NextExpiry]_vars

\* C30: for every ttl_seconds of the unsigned range, the record is reported
\* expired exactly when its last_fetch cannot be parsed or more whole seconds
\* than ttl_seconds have passed since; so not when ttl_seconds has the top bit
\* set
C30_AsClaimed ==
    Called("is_cache_expired") =>
        (call.result <=> \/ store.last_fetch.fmt # "rfc3339"
                         \/ TtlElapsed(store, now))

====
